---------------------------- MODULE Spec2Model ----------------------------
(***************************************************************************)
(* J-Agent: the job matcher (jobMatcher.js) that scores job postings       *)
(* against a parsed resume profile.                                        *)
(*                                                                         *)
(* JavaScript strings are modelled as sequences of one-character strings,  *)
(* so that String.prototype.includes and toLowerCase are computed as the   *)
(* engine computes them (character-level substring search, per-character   *)
(* case folding).  Numbers with two decimals (scores.total) are carried in *)
(* hundredths.                                                             *)
(***************************************************************************)
EXTENDS Integers, Sequences, FiniteSets, TLC

VARIABLES
    resumeData,   \* the profile argument of the call
    jobs,         \* the postings argument of the call
    scores,       \* the scores argument of calculateConfidence
    locals,       \* local variables of the function that ran
    result,       \* the value the call returned
    pc,           \* position of the caller: before or after the call
    file,         \* the file at filePath: its extension and its decoded text
    req,          \* a POST /analyze request: upload, responses, pending unlinks
    apis          \* the job sources of a searchJobs call, one record per source

vars == <<resumeData, jobs, scores, locals, result, pc, file, req, apis>>

\* The state of the services that take no part in a call.
parserVars == <<file>>
serverVars == <<req>>
searchVars == <<apis>>

---------------------------------------------------------------------------
(* Strings *)

\* String.prototype.toLowerCase over the ASCII letters.
LowerOf ==
     ("A" :> "a") @@ ("B" :> "b") @@ ("C" :> "c") @@ ("D" :> "d") @@ ("E" :> "e") @@ ("F" :>
     "f") @@ ("G" :> "g") @@ ("H" :> "h") @@ ("I" :> "i") @@ ("J" :> "j") @@ ("K" :> "k") @@
     ("L" :> "l") @@ ("M" :> "m") @@ ("N" :> "n") @@ ("O" :> "o") @@ ("P" :> "p") @@ ("Q" :>
     "q") @@ ("R" :> "r") @@ ("S" :> "s") @@ ("T" :> "t") @@ ("U" :> "u") @@ ("V" :> "v") @@
     ("W" :> "w") @@ ("X" :> "x") @@ ("Y" :> "y") @@ ("Z" :> "z")

toLowerCase(s) ==
    [i \in 1..Len(s) |-> IF s[i] \in DOMAIN LowerOf THEN LowerOf[s[i]] ELSE s[i]]

\* String.prototype.includes: sub occurs in s as a contiguous run of
\* characters; the empty string occurs in every string.
includes(s, sub) ==
    \E i \in 0..(Len(s) - Len(sub)) : SubSeq(s, i + 1, i + Len(sub)) = sub

\* Math.round(num / den) for den > 0: the nearest integer, a tie going up.
MathRound(num, den) == (2 * num + den) \div (2 * den)

Min(a, b) == IF a <= b THEN a ELSE b

Max(a, b) == IF a >= b THEN a ELSE b

\* Array.prototype.some over a sequence of strings.
SomeIncluded(s, keywords) == \E k \in 1..Len(keywords) : includes(s, keywords[k])

---------------------------------------------------------------------------
(* JobMatcher: lexicon tables *)

roleSynonyms ==
    << [canonical |-> <<"s","o","f","t","w","a","r","e"," ","e","n","g","i","n","e","e","r">>,
        synonyms  |-> << <<"d","e","v","e","l","o","p","e","r">>,
                         <<"p","r","o","g","r","a","m","m","e","r">>,
                         <<"s","w","e">>,
                         <<"s","o","f","t","w","a","r","e"," ","d","e","v","e","l","o","p","e","r">>,
                         <<"a","p","p","l","i","c","a","t","i","o","n"," ","d","e","v","e","l","o","p","e","r">> >>],
       [canonical |-> <<"f","r","o","n","t","e","n","d"," ","e","n","g","i","n","e","e","r">>,
        synonyms  |-> << <<"f","r","o","n","t","e","n","d"," ","d","e","v","e","l","o","p","e","r">>,
                         <<"f","r","o","n","t","-","e","n","d"," ","d","e","v","e","l","o","p","e","r">>,
                         <<"u","i"," ","d","e","v","e","l","o","p","e","r">>,
                         <<"r","e","a","c","t"," ","d","e","v","e","l","o","p","e","r">>,
                         <<"a","n","g","u","l","a","r"," ","d","e","v","e","l","o","p","e","r">> >>],
       [canonical |-> <<"b","a","c","k","e","n","d"," ","e","n","g","i","n","e","e","r">>,
        synonyms  |-> << <<"b","a","c","k","e","n","d"," ","d","e","v","e","l","o","p","e","r">>,
                         <<"b","a","c","k","-","e","n","d"," ","d","e","v","e","l","o","p","e","r">>,
                         <<"s","e","r","v","e","r"," ","d","e","v","e","l","o","p","e","r">>,
                         <<"a","p","i"," ","d","e","v","e","l","o","p","e","r">> >>],
       [canonical |-> <<"f","u","l","l"," ","s","t","a","c","k"," ","e","n","g","i","n","e","e","r">>,
        synonyms  |-> << <<"f","u","l","l","s","t","a","c","k"," ","d","e","v","e","l","o","p","e","r">>,
                         <<"f","u","l","l","-","s","t","a","c","k"," ","d","e","v","e","l","o","p","e","r">>,
                         <<"f","u","l","l"," ","s","t","a","c","k"," ","d","e","v","e","l","o","p","e","r">> >>],
       [canonical |-> <<"d","a","t","a"," ","s","c","i","e","n","t","i","s","t">>,
        synonyms  |-> << <<"m","l"," ","e","n","g","i","n","e","e","r">>,
                         <<"m","a","c","h","i","n","e"," ","l","e","a","r","n","i","n","g"," ","e","n","g","i","n","e","e","r">>,
                         <<"a","i"," ","e","n","g","i","n","e","e","r">>,
                         <<"r","e","s","e","a","r","c","h"," ","s","c","i","e","n","t","i","s","t">> >>],
       [canonical |-> <<"d","a","t","a"," ","a","n","a","l","y","s","t">>,
        synonyms  |-> << <<"b","u","s","i","n","e","s","s"," ","a","n","a","l","y","s","t">>,
                         <<"a","n","a","l","y","t","i","c","s"," ","s","p","e","c","i","a","l","i","s","t">>,
                         <<"b","i"," ","a","n","a","l","y","s","t">> >>],
       [canonical |-> <<"p","r","o","d","u","c","t"," ","m","a","n","a","g","e","r">>,
        synonyms  |-> << <<"p","r","o","d","u","c","t"," ","o","w","n","e","r">>, <<"p","m">>,
                         <<"p","r","o","g","r","a","m"," ","m","a","n","a","g","e","r">> >>],
       [canonical |-> <<"u","x"," ","d","e","s","i","g","n","e","r">>,
        synonyms  |-> << <<"p","r","o","d","u","c","t"," ","d","e","s","i","g","n","e","r">>,
                         <<"u","i"," ","d","e","s","i","g","n","e","r">>,
                         <<"i","n","t","e","r","a","c","t","i","o","n"," ","d","e","s","i","g","n","e","r">>,
                         <<"u","s","e","r"," ","e","x","p","e","r","i","e","n","c","e"," ","d","e","s","i","g","n","e","r">> >>],
       [canonical |-> <<"d","e","v","o","p","s"," ","e","n","g","i","n","e","e","r">>,
        synonyms  |-> << <<"s","r","e">>,
                         <<"s","i","t","e"," ","r","e","l","i","a","b","i","l","i","t","y"," ","e","n","g","i","n","e","e","r">>,
                         <<"p","l","a","t","f","o","r","m"," ","e","n","g","i","n","e","e","r">>,
                         <<"i","n","f","r","a","s","t","r","u","c","t","u","r","e"," ","e","n","g","i","n","e","e","r">> >>] >>

\* Experience level requirements (in years).
experienceLevels ==
    [intern    |-> [min |-> 0,  max |-> 0],
     entry     |-> [min |-> 0,  max |-> 2],
     junior    |-> [min |-> 0,  max |-> 2],
     mid       |-> [min |-> 2,  max |-> 5],
     senior    |-> [min |-> 5,  max |-> 10],
     staff     |-> [min |-> 7,  max |-> 15],
     principal |-> [min |-> 10, max |-> 20],
     lead      |-> [min |-> 5,  max |-> 15],
     manager   |-> [min |-> 5,  max |-> 15],
     director  |-> [min |-> 8,  max |-> 20],
     vp        |-> [min |-> 10, max |-> 25]]

\* The table of sameRoleFamily, in the order of its keys.
families ==
    << [family |-> "engineering",
        keywords |-> <<<<"e","n","g","i","n","e","e","r">>,
                       <<"d","e","v","e","l","o","p","e","r">>,
                       <<"p","r","o","g","r","a","m","m","e","r">>,
                       <<"a","r","c","h","i","t","e","c","t">>>>],
       [family |-> "product",
        keywords |-> << <<"p","r","o","d","u","c","t"," ","m","a","n","a","g","e","r">>,
                        <<"p","r","o","d","u","c","t"," ","o","w","n","e","r">>,
                        <<"p","r","o","g","r","a","m"," ","m","a","n","a","g","e","r">> >>],
       [family |-> "design",
        keywords |-> <<<<"d","e","s","i","g","n","e","r">>, <<"u","x">>, <<"u","i">>>>],
       [family |-> "data",
        keywords |-> << <<"d","a","t","a"," ","s","c","i","e","n","t","i","s","t">>,
                        <<"d","a","t","a"," ","a","n","a","l","y","s","t">>,
                        <<"d","a","t","a"," ","e","n","g","i","n","e","e","r">>,
                        <<"m","l"," ","e","n","g","i","n","e","e","r">> >>] >>

\* The table of relatedRoleType.
typeKeywords ==
    [Engineering |-> <<<<"e","n","g","i","n","e","e","r">>,
                       <<"d","e","v","e","l","o","p","e","r">>,
                       <<"t","e","c","h","n","i","c","a","l">>>>,
     Product     |-> <<<<"p","r","o","d","u","c","t">>,
                       <<"p","r","o","g","r","a","m">>,
                       <<"p","r","o","j","e","c","t">>>>,
     Design      |-> <<<<"d","e","s","i","g","n">>,
                       <<"u","x">>,
                       <<"u","i">>,
                       <<"c","r","e","a","t","i","v","e">>>>,
     Data        |-> <<<<"d","a","t","a">>,
                       <<"a","n","a","l","y","t","i","c","s">>,
                       <<"m","l">>,
                       <<"a","i">>>>,
     Management  |-> <<<<"m","a","n","a","g","e","r">>,
                       <<"l","e","a","d">>,
                       <<"d","i","r","e","c","t","o","r">>,
                       <<"h","e","a","d">>>>]

\* The reference vocabulary of calculateContentScore.
technicalTerms ==
    << <<"j","a","v","a","s","c","r","i","p","t">>,
       <<"p","y","t","h","o","n">>,
       <<"j","a","v","a">>,
       <<"r","e","a","c","t">>,
       <<"n","o","d","e">>,
       <<"a","w","s">>,
       <<"s","q","l">>,
       <<"d","o","c","k","e","r">>,
       <<"k","u","b","e","r","n","e","t","e","s">>,
       <<"a","g","i","l","e">>,
       <<"s","c","r","u","m">>,
       <<"t","y","p","e","s","c","r","i","p","t">>,
       <<"a","n","g","u","l","a","r">>,
       <<"v","u","e">>,
       <<"g","o">>,
       <<"p","o","s","t","g","r","e","s","q","l">>,
       <<"m","o","n","g","o","d","b">>,
       <<"r","e","d","i","s">>,
       <<"g","r","a","p","h","q","l">>,
       <<"r","e","s","t">>,
       <<"a","p","i">>,
       <<"c","i","/","c","d">>,
       <<"f","i","g","m","a">>,
       <<"s","k","e","t","c","h">>,
       <<"a","d","o","b","e">>,
       <<"a","n","a","l","y","t","i","c","s">>,
       <<"t","a","b","l","e","a","u">>,
       <<"s","p","a","r","k">> >>

---------------------------------------------------------------------------
(* JobMatcher: criterion 1, role alignment *)

\* titlesMatch with the synonym test one-sided: title1 has to contain the
\* canonical name.
titlesMatch_CanonicalOnly(title1, title2) ==
    IF title1 = <<>> \/ title2 = <<>> THEN FALSE
    ELSE IF includes(title1, title2) \/ includes(title2, title1) THEN TRUE
    ELSE \E e \in 1..Len(roleSynonyms) :
            LET allVariants == <<roleSynonyms[e].canonical>> \o roleSynonyms[e].synonyms
            IN  includes(title1, roleSynonyms[e].canonical) /\ SomeIncluded(title2, allVariants)

\* A falsy title (empty, or absent and defaulted to '') matches nothing.
titlesMatch(title1, title2) ==
    IF title1 = <<>> \/ title2 = <<>> THEN FALSE
    ELSE IF includes(title1, title2) \/ includes(title2, title1) THEN TRUE
    ELSE \E e \in 1..Len(roleSynonyms) :
            LET allVariants == <<roleSynonyms[e].canonical>> \o roleSynonyms[e].synonyms
            IN  SomeIncluded(title1, allVariants) /\ SomeIncluded(title2, allVariants)

sameRoleFamily(jobTitle, candidateRole) ==
    \E f \in 1..Len(families) :
        /\ SomeIncluded(jobTitle, families[f].keywords)
        /\ SomeIncluded(candidateRole, families[f].keywords)

\* roleType is "" when the profile has no primaryRole or no type.
relatedRoleType(jobTitle, roleType) ==
    IF roleType = "" THEN FALSE
    ELSE LET keywords == IF roleType \in DOMAIN typeKeywords
                         THEN typeKeywords[roleType] ELSE <<>>
         IN  SomeIncluded(jobTitle, keywords)

\* calculateRoleScore with the family test ahead of the historical roles.
calculateRoleScore_FamilyFirst(profile, job) ==
    LET jobTitle       == toLowerCase(job.title)
        candidateRoles == [i \in 1..Len(profile.roles) |-> toLowerCase(profile.roles[i].title)]
        primaryRole    == toLowerCase(profile.primaryRole.title)
    IN  IF titlesMatch(jobTitle, primaryRole) THEN 100
        ELSE IF sameRoleFamily(jobTitle, primaryRole) THEN 70
        ELSE IF \E i \in 1..Len(candidateRoles) : titlesMatch(jobTitle, candidateRoles[i])
             THEN 85
        ELSE IF relatedRoleType(jobTitle, profile.primaryRole.type) THEN 50
        ELSE 20

calculateRoleScore(profile, job) ==
    LET jobTitle       == toLowerCase(job.title)
        candidateRoles == [i \in 1..Len(profile.roles) |-> toLowerCase(profile.roles[i].title)]
        primaryRole    == toLowerCase(profile.primaryRole.title)
    IN  IF titlesMatch(jobTitle, primaryRole) THEN 100
        ELSE IF \E i \in 1..Len(candidateRoles) : titlesMatch(jobTitle, candidateRoles[i])
             THEN 85
        ELSE IF sameRoleFamily(jobTitle, primaryRole) THEN 70
        ELSE IF relatedRoleType(jobTitle, profile.primaryRole.type) THEN 50
        ELSE 20

---------------------------------------------------------------------------
(* JobMatcher: criterion 2, experience level *)

\* extractJobLevel with the levels staff and senior the other way round and
\* with every manager a manager.
extractJobLevel_SeniorBeforeStaff(jobTitle) ==
    LET title == toLowerCase(jobTitle)
    IN  IF includes(title, <<"i","n","t","e","r","n">>) THEN "intern"
        ELSE IF includes(title, <<"j","u","n","i","o","r">>) \/ includes(title, <<"j","r",".">>)
                \/ includes(title, <<"e","n","t","r","y">>) THEN "junior"
        ELSE IF includes(title, <<"p","r","i","n","c","i","p","a","l">>) THEN "principal"
        ELSE IF includes(title, <<"s","e","n","i","o","r">>) \/ includes(title, <<"s","r",".">>) THEN "senior"
        ELSE IF includes(title, <<"s","t","a","f","f">>) THEN "staff"
        ELSE IF includes(title, <<"l","e","a","d">>) THEN "lead"
        ELSE IF includes(title, <<"m","a","n","a","g","e","r">>) THEN "manager"
        ELSE IF includes(title, <<"d","i","r","e","c","t","o","r">>) THEN "director"
        ELSE IF includes(title, <<"v","p">>) \/ includes(title, <<"v","i","c","e"," ","p","r","e","s","i","d","e","n","t">>)
             THEN "vp"
        ELSE "mid"

extractJobLevel(jobTitle) ==
    LET title == toLowerCase(jobTitle)
    IN  IF includes(title, <<"i","n","t","e","r","n">>) THEN "intern"
        ELSE IF includes(title, <<"j","u","n","i","o","r">>) \/ includes(title, <<"j","r",".">>)
                \/ includes(title, <<"e","n","t","r","y">>) THEN "junior"
        ELSE IF includes(title, <<"p","r","i","n","c","i","p","a","l">>) THEN "principal"
        ELSE IF includes(title, <<"s","t","a","f","f">>) THEN "staff"
        ELSE IF includes(title, <<"s","e","n","i","o","r">>) \/ includes(title, <<"s","r",".">>) THEN "senior"
        ELSE IF includes(title, <<"l","e","a","d">>) \/ includes(title, <<"t","e","c","h"," ","l","e","a","d">>)
             THEN "lead"
        ELSE IF includes(title, <<"m","a","n","a","g","e","r">>)
                /\ ~includes(title, <<"p","r","o","d","u","c","t"," ","m","a","n","a","g","e","r">>) THEN "manager"
        ELSE IF includes(title, <<"d","i","r","e","c","t","o","r">>) THEN "director"
        ELSE IF includes(title, <<"v","p">>) \/ includes(title, <<"v","i","c","e"," ","p","r","e","s","i","d","e","n","t">>)
             THEN "vp"
        ELSE "mid"

\* experienceByRole[type]?.years || 0
YearsOf(experienceByRole, type) ==
    IF type \in DOMAIN experienceByRole THEN experienceByRole[type].years ELSE 0

\* getRelevantExperience with the total years in place of the years of a
\* category the profile does not have.
getRelevantExperience_TotalWhenAbsent(profile, job) ==
    LET YearsOrTotal(type) ==
            IF type \in DOMAIN profile.experienceByRole
            THEN profile.experienceByRole[type].years
            ELSE profile.totalYearsExperience
        Relevant(jobTitle) ==
            IF includes(jobTitle, <<"e","n","g","i","n","e","e","r">>) \/ includes(jobTitle, <<"d","e","v","e","l","o","p","e","r">>)
            THEN YearsOrTotal("Engineering")
            ELSE IF includes(jobTitle, <<"p","r","o","d","u","c","t"," ","m","a","n","a","g","e","r">>)
                    \/ includes(jobTitle, <<"p","r","o","g","r","a","m"," ","m","a","n","a","g","e","r">>)
            THEN YearsOrTotal("Product")
            ELSE IF includes(jobTitle, <<"d","e","s","i","g","n","e","r">>) \/ includes(jobTitle, <<"u","x">>)
                    \/ includes(jobTitle, <<"u","i">>)
            THEN YearsOrTotal("Design")
            ELSE IF includes(jobTitle, <<"d","a","t","a">>) \/ includes(jobTitle, <<"a","n","a","l","y","s","t">>)
                    \/ includes(jobTitle, <<"m","l">>)
            THEN YearsOrTotal("Data")
            ELSE IF includes(jobTitle, <<"m","a","n","a","g","e","r">>) \/ includes(jobTitle, <<"d","i","r","e","c","t","o","r">>)
                    \/ includes(jobTitle, <<"l","e","a","d">>)
            THEN YearsOrTotal("Management")
            ELSE profile.totalYearsExperience
    IN  Relevant(toLowerCase(job.title))

getRelevantExperience(profile, job) ==
    LET jobTitle         == toLowerCase(job.title)
        experienceByRole == profile.experienceByRole
    IN  IF includes(jobTitle, <<"e","n","g","i","n","e","e","r">>) \/ includes(jobTitle, <<"d","e","v","e","l","o","p","e","r">>)
        THEN YearsOf(experienceByRole, "Engineering")
        ELSE IF includes(jobTitle, <<"p","r","o","d","u","c","t"," ","m","a","n","a","g","e","r">>)
                \/ includes(jobTitle, <<"p","r","o","g","r","a","m"," ","m","a","n","a","g","e","r">>)
        THEN YearsOf(experienceByRole, "Product")
        ELSE IF includes(jobTitle, <<"d","e","s","i","g","n","e","r">>) \/ includes(jobTitle, <<"u","x">>)
                \/ includes(jobTitle, <<"u","i">>)
        THEN YearsOf(experienceByRole, "Design")
        ELSE IF includes(jobTitle, <<"d","a","t","a">>) \/ includes(jobTitle, <<"a","n","a","l","y","s","t">>)
                \/ includes(jobTitle, <<"m","l">>)
        THEN YearsOf(experienceByRole, "Data")
        ELSE IF includes(jobTitle, <<"m","a","n","a","g","e","r">>) \/ includes(jobTitle, <<"d","i","r","e","c","t","o","r">>)
                \/ includes(jobTitle, <<"l","e","a","d">>)
        THEN YearsOf(experienceByRole, "Management")
        ELSE profile.totalYearsExperience

\* this.experienceLevels[jobLevel] || { min: 0, max: 100 }
LevelRequirements(jobLevel) ==
    IF jobLevel \in DOMAIN experienceLevels THEN experienceLevels[jobLevel]
    ELSE [min |-> 0, max |-> 100]

\* BandScore with the under-qualified test ahead of the two fit tests.
BandScore_UnderFirst(relevantExperience, levelRequirements) ==
    IF relevantExperience < levelRequirements.min
    THEN Max(0, 70 - ((levelRequirements.min - relevantExperience) * 15))
    ELSE IF relevantExperience <= levelRequirements.max + 2
    THEN 100
    ELSE IF relevantExperience <= levelRequirements.max + 3
    THEN 80
    ELSE Max(40, 90 - ((relevantExperience - levelRequirements.max) * 10))

\* The value of score before the career-pivot block: the position of the
\* relevant experience in the band of the level.
BandScore(relevantExperience, levelRequirements) ==
    IF relevantExperience >= levelRequirements.min
       /\ relevantExperience <= levelRequirements.max + 2
    THEN 100
    ELSE IF relevantExperience >= levelRequirements.min - 1
            /\ relevantExperience <= levelRequirements.max + 3
    THEN 80
    ELSE IF relevantExperience < levelRequirements.min
    THEN Max(0, 70 - ((levelRequirements.min - relevantExperience) * 15))
    ELSE Max(40, 90 - ((relevantExperience - levelRequirements.max) * 10))

\* PivotScore with the two branches of the career-pivot block exchanged.
PivotScore_Exchanged(score, totalYearsExperience, relevantExperience, jobLevel) ==
    IF totalYearsExperience > 5 /\ relevantExperience < 3
    THEN IF jobLevel \in {"senior", "lead", "manager"} THEN Max(score, 70)
         ELSE IF jobLevel \in {"mid", "junior", "entry"} THEN Min(score, 40)
         ELSE score
    ELSE score

\* PivotScore without the boost of the junior, entry and mid levels.
PivotScore_NoFloor(score, totalYearsExperience, relevantExperience, jobLevel) ==
    IF totalYearsExperience > 5 /\ relevantExperience < 3
    THEN IF jobLevel \in {"senior", "lead", "manager"} THEN Min(score, 40)
         ELSE score
    ELSE score

\* The career-pivot block applied to score.
PivotScore(score, totalYearsExperience, relevantExperience, jobLevel) ==
    IF totalYearsExperience > 5 /\ relevantExperience < 3
    THEN IF jobLevel \in {"senior", "lead", "manager"} THEN Min(score, 40)
         ELSE IF jobLevel \in {"mid", "junior", "entry"} THEN Max(score, 70)
         ELSE score
    ELSE score

\* calculateExperienceScore with a perfect fit for the candidate whose
\* seniority level is the level of the posting.
calculateExperienceScore_ByCandidateLevel(profile, job) ==
    LET Score(jobLevel, relevantExperience) ==
            IF profile.seniorityLevel = jobLevel THEN 100
            ELSE PivotScore(BandScore(relevantExperience, LevelRequirements(jobLevel)),
                            profile.totalYearsExperience, relevantExperience, jobLevel)
    IN  Score(extractJobLevel(toLowerCase(job.title)), getRelevantExperience(profile, job))

\* requiredYears and candidateLevel are computed by the source and never read.
calculateExperienceScore(profile, job) ==
    LET Score(jobLevel, relevantExperience) ==
            PivotScore(BandScore(relevantExperience, LevelRequirements(jobLevel)),
                       profile.totalYearsExperience, relevantExperience, jobLevel)
    IN  Score(extractJobLevel(toLowerCase(job.title)), getRelevantExperience(profile, job))

---------------------------------------------------------------------------
(* JobMatcher: criterion 3, content match *)

\* `${jobTitle} ${jobDescription}`
jobTextOf(job) == toLowerCase(job.title) \o <<" ">> \o toLowerCase(job.description)

matchedSkillsOf(profile, job) ==
    LET candidateSkills == [i \in 1..Len(profile.skills.technical) |->
                               toLowerCase(profile.skills.technical[i])]
    IN  Cardinality({i \in 1..Len(candidateSkills) : includes(jobTextOf(job), candidateSkills[i])})

totalJobSkillsOf(job) ==
    Cardinality({t \in 1..Len(technicalTerms) : includes(jobTextOf(job), technicalTerms[t])})

\* calculateContentScore without the Math.min(100, ...).
calculateContentScore_NoCap(profile, job) ==
    LET Score(matchedSkills, totalJobSkills) ==
            IF totalJobSkills = 0
            THEN IF Len(profile.skills.technical) > 0 THEN 75 ELSE 50
            ELSE MathRound(matchedSkills * 120, Max(totalJobSkills, 1))
    IN  Score(matchedSkillsOf(profile, job), totalJobSkillsOf(job))

calculateContentScore(profile, job) ==
    LET Score(matchedSkills, totalJobSkills) ==
            IF totalJobSkills = 0
            THEN IF Len(profile.skills.technical) > 0 THEN 75 ELSE 50
            ELSE \* Math.round(Math.min(100, matchedSkills / Math.max(totalJobSkills, 1) * 120))
                 IF matchedSkills * 120 >= 100 * Max(totalJobSkills, 1) THEN 100
                 ELSE MathRound(matchedSkills * 120, Max(totalJobSkills, 1))
    IN  Score(matchedSkillsOf(profile, job), totalJobSkillsOf(job))

---------------------------------------------------------------------------
(* JobMatcher: total, confidence, matchJobs *)

\* calculateMatchScore with the weights of role and experience exchanged.
calculateMatchScore_SwappedWeights(profile, job) ==
    LET Scores(roleScore, experienceScore, contentScore) ==
            [role       |-> roleScore,
             experience |-> experienceScore,
             content    |-> contentScore,
             total      |-> MathRound(((roleScore * 35) + (experienceScore * 40) + (contentScore * 25)) * 100, 100)]
    IN  Scores(calculateRoleScore(profile, job),
               calculateExperienceScore(profile, job),
               calculateContentScore(profile, job))

\* The weights 0.40, 0.35 and 0.25 in hundredths; total is kept in
\* hundredths: Math.round(total * 100) / 100.
calculateMatchScore(profile, job) ==
    LET Scores(roleScore, experienceScore, contentScore) ==
            [role       |-> roleScore,
             experience |-> experienceScore,
             content    |-> contentScore,
             total      |-> MathRound(((roleScore * 40) + (experienceScore * 35) + (contentScore * 25)) * 100, 100)]
    IN  Scores(calculateRoleScore(profile, job),
               calculateExperienceScore(profile, job),
               calculateContentScore(profile, job))

\* calculateConfidence with the factor of the lowest band too large.
calculateConfidence_SteepLowBand(s) ==
    LET total == s.total
    IN  IF total >= 8500
        THEN Min(95, MathRound(900000 + (total - 8500) * 33, 10000))
        ELSE IF total >= 6000
        THEN MathRound(700000 + (total - 6000) * 76, 10000)
        ELSE IF total >= 4000
        THEN MathRound(500000 + (total - 4000) * 95, 10000)
        ELSE MathRound(total * 150, 10000)

\* calculateConfidence with the top band twice as steep and capped at 100.
calculateConfidence_CapAt100(s) ==
    LET total == s.total
    IN  IF total >= 8500
        THEN Min(100, MathRound(900000 + (total - 8500) * 66, 10000))
        ELSE IF total >= 6000
        THEN MathRound(700000 + (total - 6000) * 76, 10000)
        ELSE IF total >= 4000
        THEN MathRound(500000 + (total - 4000) * 95, 10000)
        ELSE MathRound(total * 125, 10000)

\* s.total is in hundredths; the factors 0.33, 0.76, 0.95 and 1.25 are
\* hundredths too, so the argument of Math.round is a multiple of 1/10000.
calculateConfidence(s) ==
    LET total == s.total
    IN  IF total >= 8500
        THEN Min(95, MathRound(900000 + (total - 8500) * 33, 10000))
        ELSE IF total >= 6000
        THEN MathRound(700000 + (total - 6000) * 76, 10000)
        ELSE IF total >= 4000
        THEN MathRound(500000 + (total - 4000) * 95, 10000)
        ELSE MathRound(total * 125, 10000)

\* jobs.map(job => ({...job, matchScore, scores, confidence}))
ScoreJob(profile, job) ==
    LET Scored(s) == [title       |-> job.title,
                      company     |-> job.company,
                      description |-> job.description,
                      matchScore  |-> s.total,
                      scores      |-> s,
                      confidence  |-> calculateConfidence(s)]
    IN  Scored(calculateMatchScore(profile, job))

\* SortInsert with x placed ahead of the elements of equal matchScore.
SortInsert_BeforeEqual(sorted, x) ==
    LET k == Cardinality({i \in 1..Len(sorted) : sorted[i].matchScore > x.matchScore})
    IN  SubSeq(sorted, 1, k) \o <<x>> \o SubSeq(sorted, k + 1, Len(sorted))

\* x placed into the sorted sequence behind every element the comparator
\* (a, b) => b.matchScore - a.matchScore does not put after it.
SortInsert(sorted, x) ==
    LET k == Cardinality({i \in 1..Len(sorted) : sorted[i].matchScore >= x.matchScore})
    IN  SubSeq(sorted, 1, k) \o <<x>> \o SubSeq(sorted, k + 1, Len(sorted))

RECURSIVE SortByMatchScore(_)
\* Array.prototype.sort with that comparator: a stable sort (ECMAScript 2019),
\* here by insertion from the left.
SortByMatchScore(seq) ==
    IF Len(seq) = 0 THEN <<>>
    ELSE SortInsert(SortByMatchScore(SubSeq(seq, 1, Len(seq) - 1)), seq[Len(seq)])

\* IsRecommended with the upper limit exclusive.
IsRecommended_Below95(job) == job.confidence >= 90 /\ job.confidence < 95

IsRecommended(job) == job.confidence >= 90 /\ job.confidence <= 95

\* IsWorthExploring without the upper limit.
IsWorthExploring_NoUpperLimit(job) == job.confidence >= 70

IsWorthExploring(job) == job.confidence >= 70 /\ job.confidence < 90

\* matchJobs with the postings sorted in place, as jobs.sort would leave
\* them.
ArgumentsAfter_SortedInPlace(profile, postings) ==
    LET Postings(sorted) ==
            [i \in 1..Len(sorted) |->
                [title       |-> sorted[i].title,
                 company     |-> sorted[i].company,
                 description |-> sorted[i].description]]
    IN  [profile  |-> profile,
         postings |-> Postings(SortByMatchScore(
                          [k \in 1..Len(postings) |-> ScoreJob(profile, postings[k])]))]

\* The arguments of matchJobs after the call: jobs.map builds a new array of
\* new objects, which is the one sorted and filtered; the profile and the
\* postings are only read.
ArgumentsAfter(profile, postings) == [profile |-> profile, postings |-> postings]

\* matchJobs with `all` made of the two categories only.
matchJobs_CategorisedOnly(profile, postings) ==
    LET Categorised(scoredJobs) ==
            [recommended    |-> SelectSeq(scoredJobs, IsRecommended),
             worthExploring |-> SelectSeq(scoredJobs, IsWorthExploring),
             all            |-> SelectSeq(scoredJobs, LAMBDA j : IsRecommended(j) \/ IsWorthExploring(j))]
    IN  Categorised(SortByMatchScore([i \in 1..Len(postings) |-> ScoreJob(profile, postings[i])]))

matchJobs(profile, postings) ==
    LET Categorised(scoredJobs) ==
            [recommended    |-> SelectSeq(scoredJobs, IsRecommended),
             worthExploring |-> SelectSeq(scoredJobs, IsWorthExploring),
             all            |-> scoredJobs]
    IN  Categorised(SortByMatchScore([i \in 1..Len(postings) |-> ScoreJob(profile, postings[i])]))

\* The local variables of the scoring of one posting.
LocalsOf(profile, job) ==
    LET Locals(jobLevel, relevantExperience) ==
            [jobLevel           |-> jobLevel,
             relevantExperience |-> relevantExperience,
             levelRequirements  |-> LevelRequirements(jobLevel),
             band               |-> BandScore(relevantExperience, LevelRequirements(jobLevel)),
             matchedSkills      |-> matchedSkillsOf(profile, job),
             totalJobSkills     |-> totalJobSkillsOf(job),
             scores             |-> calculateMatchScore(profile, job)]
    IN  Locals(extractJobLevel(toLowerCase(job.title)), getRelevantExperience(profile, job))

---------------------------------------------------------------------------
(* Inputs *)

\* Bounds of the enumerated inputs.
MaxJobs == 3
MaxRoles == 2
MaxSkills == 3
MaxCategoryYears == 30
MaxDeficit == 2
MaxTotal == 10000
MaxStep == 100
\* The lines of a resume text.
MaxLines == 3
\* The calls of matchJobs one after the other.
MaxCalls == 2

Job(title, company, description) ==
    [title |-> title, company |-> company, description |-> description]

t_SoftwareEngineer == <<"S","o","f","t","w","a","r","e"," ","E","n","g","i","n","e","e","r">>
t_FrontendEngineer == <<"F","r","o","n","t","e","n","d"," ","E","n","g","i","n","e","e","r">>
t_FrontendDeveloper == <<"F","r","o","n","t","e","n","d"," ","D","e","v","e","l","o","p","e","r">>
t_UXDesigner == <<"U","X"," ","D","e","s","i","g","n","e","r">>
t_ProductManager == <<"P","r","o","d","u","c","t"," ","M","a","n","a","g","e","r">>
t_ProductOwner == <<"P","r","o","d","u","c","t"," ","O","w","n","e","r">>
t_ProjectManager == <<"P","r","o","j","e","c","t"," ","M","a","n","a","g","e","r">>
t_SeniorProductManager == <<"S","e","n","i","o","r"," ","P","r","o","d","u","c","t"," ","M","a","n","a","g","e","r">>
t_DataAnalyst == <<"D","a","t","a"," ","A","n","a","l","y","s","t">>
t_DataEngineer == <<"D","a","t","a"," ","E","n","g","i","n","e","e","r">>
t_EngineeringManager == <<"E","n","g","i","n","e","e","r","i","n","g"," ","M","a","n","a","g","e","r">>
t_AccountExecutive == <<"A","c","c","o","u","n","t"," ","E","x","e","c","u","t","i","v","e">>
t_SoftwareEngineeringIntern == <<"S","o","f","t","w","a","r","e"," ","E","n","g","i","n","e","e","r","i","n","g"," ","I","n","t","e","r","n">>
t_JuniorDeveloper == <<"J","u","n","i","o","r"," ","D","e","v","e","l","o","p","e","r">>
t_StaffEngineer == <<"S","t","a","f","f"," ","E","n","g","i","n","e","e","r">>
t_PrincipalEngineer == <<"P","r","i","n","c","i","p","a","l"," ","E","n","g","i","n","e","e","r">>
t_TechLead == <<"T","e","c","h"," ","L","e","a","d">>
t_DirectorOfDesign == <<"D","i","r","e","c","t","o","r"," ","o","f"," ","D","e","s","i","g","n">>
t_VPOfSales == <<"V","P"," ","o","f"," ","S","a","l","e","s">>
t_EntryLevelDataAnalyst == <<"E","n","t","r","y"," ","L","e","v","e","l"," ","D","a","t","a"," ","A","n","a","l","y","s","t">>
t_Professional == <<"P", "r", "o", "f", "e", "s", "s", "i", "o", "n", "a", "l">>

c_Adobe == <<"A","d","o","b","e">>
c_Figma == <<"F","i","g","m","a">>
c_Sketch == <<"S","k","e","t","c","h">>

---------------------------------------------------------------------------
(* ResumeParser: the experience rollup and the primary role, which decide  *)
(* the profiles the matcher is given                                       *)

\* A role record; years is <<>> for null and <<n>> for the number n.
Role(title, years) == [title |-> title, years |-> years]

\* The category table of calculateExperienceByRole, in the order of its keys.
roleTypes ==
    << [type |-> "Engineering",
        keywords |-> <<<<"e","n","g","i","n","e","e","r">>,
                       <<"d","e","v","e","l","o","p","e","r">>,
                       <<"a","r","c","h","i","t","e","c","t">>,
                       <<"d","e","v","o","p","s">>,
                       <<"s","r","e">>>>],
       [type |-> "Product",
        keywords |-> << <<"p","r","o","d","u","c","t"," ","m","a","n","a","g","e","r">>,
                        <<"p","r","o","d","u","c","t"," ","o","w","n","e","r">>,
                        <<"p","r","o","g","r","a","m"," ","m","a","n","a","g","e","r">> >>],
       [type |-> "Design",
        keywords |-> <<<<"d","e","s","i","g","n","e","r">>, <<"u","x">>, <<"u","i">>>>],
       [type |-> "Data",
        keywords |-> << <<"d","a","t","a"," ","s","c","i","e","n","t","i","s","t">>,
                        <<"d","a","t","a"," ","a","n","a","l","y","s","t">>,
                        <<"d","a","t","a"," ","e","n","g","i","n","e","e","r">>,
                        <<"m","l"," ","e","n","g","i","n","e","e","r">> >>],
       [type |-> "Management",
        keywords |-> << <<"m","a","n","a","g","e","r">>,
                        <<"d","i","r","e","c","t","o","r">>,
                        <<"l","e","a","d">>,
                        <<"h","e","a","d"," ","o","f">>,
                        <<"v","p">>, <<"c","h","i","e","f">> >>] >>

\* The roles, in resume order, whose title contains a keyword of category k.
RolesOfType(roles, k) ==
    SelectSeq(roles, LAMBDA role : SomeIncluded(toLowerCase(role.title), roleTypes[k].keywords))

RECURSIVE SumYears(_)
\* The sum of the truthy years (not null, not 0) of the roles.
SumYears(roles) ==
    IF Len(roles) = 0 THEN 0
    ELSE (IF Len(roles[1].years) = 1 THEN roles[1].years[1] ELSE 0) + SumYears(Tail(roles))

\* calculateExperienceByRole without the estimate of a category whose years
\* sum to 0.
calculateExperienceByRole_NoEstimate(roles) ==
    LET EntryOf(ofType) ==
            [years |-> SumYears(ofType),
             roles |-> [i \in 1..Len(ofType) |-> ofType[i].title]]
        Rollup(present) ==
            [type \in {roleTypes[k].type : k \in present} |->
                EntryOf(RolesOfType(roles, CHOOSE j \in present : roleTypes[j].type = type))]
    IN  Rollup({k \in 1..Len(roleTypes) : Len(RolesOfType(roles, k)) > 0})

\* The rollup: a category is present when a role belongs to it; a category
\* whose years sum to 0 is estimated at two years per role.
calculateExperienceByRole(roles) ==
    LET Entry(ofType, sum) ==
            [years |-> IF sum = 0 THEN Len(ofType) * 2 ELSE sum,
             roles |-> [i \in 1..Len(ofType) |-> ofType[i].title]]
        EntryOf(ofType) == Entry(ofType, SumYears(ofType))
        Rollup(present) ==
            [type \in {roleTypes[k].type : k \in present} |->
                EntryOf(RolesOfType(roles, CHOOSE j \in present : roleTypes[j].type = type))]
    IN  Rollup({k \in 1..Len(roleTypes) : Len(RolesOfType(roles, k)) > 0})

\* The sum of the category years, capped at 30.
calculateTotalExperience(experienceByRole) ==
    LET RECURSIVE Sum(_)
        Sum(S) == IF S = {} THEN 0
                  ELSE LET c == CHOOSE x \in S : TRUE
                       IN  experienceByRole[c].years + Sum(S \ {c})
    IN  Min(Sum(DOMAIN experienceByRole), 30)

\* The keys of the rollup in insertion order: by first role that belongs
\* to the category, then by the order of roleTypes.
RECURSIVE TypeOrder(_, _)
TypeOrder(roles, seen) ==
    IF Len(roles) = 0 THEN <<>>
    ELSE LET NamesOf(new) == [i \in 1..Len(new) |-> roleTypes[new[i]].type]
             Continue(names) ==
                 names \o TypeOrder(Tail(roles), seen \cup {names[i] : i \in 1..Len(names)})
         IN  Continue(NamesOf(SelectSeq([k \in 1..Len(roleTypes) |-> k],
                        LAMBDA k : /\ roleTypes[k].type \notin seen
                                   /\ Len(RolesOfType(<<roles[1]>>, k)) > 0)))

\* determinePrimaryRole with the last of the categories of the most years.
determinePrimaryRole_LastOnTie(roles, experienceByRole) ==
    IF Len(roles) = 0 THEN [type |-> "General", title |-> t_Professional]
    ELSE LET Best(order) ==
                 {i \in 1..Len(order) :
                     /\ experienceByRole[order[i]].years > 0
                     /\ \A j \in 1..Len(order) :
                           \/ experienceByRole[order[j]].years < experienceByRole[order[i]].years
                           \/ (experienceByRole[order[j]].years = experienceByRole[order[i]].years
                               /\ i >= j)}
             Primary(order, best) ==
                 [type  |-> IF best = {} THEN "General" ELSE order[CHOOSE i \in best : TRUE],
                  title |-> IF roles[1].title = <<>> THEN t_Professional ELSE roles[1].title,
                  yearsInRole |-> IF best = {} THEN 0
                                  ELSE experienceByRole[order[CHOOSE i \in best : TRUE]].years]
             Pick(order) == Primary(order, Best(order))
         IN  Pick(TypeOrder(roles, {}))

\* The first category, in insertion order, whose years exceed those of every
\* category before it and are not exceeded later; 'General' when no category
\* has positive years.
determinePrimaryRole(roles, experienceByRole) ==
    IF Len(roles) = 0 THEN [type |-> "General", title |-> t_Professional]
    ELSE LET Best(order) ==
                 {i \in 1..Len(order) :
                     /\ experienceByRole[order[i]].years > 0
                     /\ \A j \in 1..Len(order) :
                           \/ experienceByRole[order[j]].years < experienceByRole[order[i]].years
                           \/ (experienceByRole[order[j]].years = experienceByRole[order[i]].years
                               /\ i <= j)}
             Primary(order, best) ==
                 [type  |-> IF best = {} THEN "General" ELSE order[CHOOSE i \in best : TRUE],
                  title |-> IF roles[1].title = <<>> THEN t_Professional ELSE roles[1].title,
                  yearsInRole |-> IF best = {} THEN 0
                                  ELSE experienceByRole[order[CHOOSE i \in best : TRUE]].years]
             Pick(order) == Primary(order, Best(order))
         IN  Pick(TypeOrder(roles, {}))

\* The part of extractInformation the matcher reads.
Profile(roles, technical) ==
    LET Information(experienceByRole) ==
            [roles                |-> roles,
             experienceByRole     |-> experienceByRole,
             totalYearsExperience |-> calculateTotalExperience(experienceByRole),
             skills               |-> [technical |-> technical],
             seniorityLevel       |-> "mid",
             primaryRole          |-> determinePrimaryRole(roles, experienceByRole),
             keywords             |-> <<>>]
    IN  Information(calculateExperienceByRole(roles))

\* An absent primaryRole: both optional chains of the matcher yield a falsy
\* value, '' for the title and undefined for the type.
WithoutPrimaryRole(profile) ==
    [profile EXCEPT !.primaryRole = [type |-> "", title |-> <<>>]]

\* Sequences over S of length 0..n.
SeqsUpTo(S, n) == UNION {[1..k -> S] : k \in 0..n}

\* The sequences of length 0..n that follow the order of the sequence pool
\* and repeat nothing (a de-duplicated scan of a lexicon).
OrderedPicks(pool, n) ==
    LET picks == {I \in SUBSET (1..Len(pool)) : Cardinality(I) <= n}
        RECURSIVE AsSeq(_)
        AsSeq(I) == IF I = {} THEN <<>>
                    ELSE LET m == CHOOSE x \in I : \A y \in I : x <= y
                         IN  <<pool[m]>> \o AsSeq(I \ {m})
    IN  {AsSeq(I) : I \in picks}

\* Sequences of length 0..n over S that repeat nothing.
DistinctSeqsUpTo(S, n) ==
    {s \in SeqsUpTo(S, n) : \A i, j \in 1..Len(s) : i # j => s[i] # s[j]}

(* Inputs of the whole-batch runs *)

JobPool ==
    { Job(t_SoftwareEngineer, c_Adobe, <<"p","y","t","h","o","n"," ","a","n","d"," ","r","e","a","c","t">>),
      Job(t_SoftwareEngineer, c_Figma, <<"p","y","t","h","o","n"," ","a","n","d"," ","r","e","a","c","t">>),
      Job(t_SeniorProductManager, c_Adobe, <<>>),
      Job(t_UXDesigner, c_Sketch, <<"f","i","g","m","a"," ","s","k","e","t","c","h">>),
      Job(t_FrontendDeveloper, c_Figma, <<"r","e","a","c","t"," ","t","y","p","e","s","c","r","i","p","t"," ","a","w","s">>),
      Job(t_AccountExecutive, c_Adobe, <<>>) }

ProfilePool ==
    { Profile(resume.roles, resume.technical) : resume \in
        { \* an engineer
          [roles     |-> <<Role(t_SoftwareEngineer, <<4>>), Role(t_FrontendEngineer, <<2>>)>>,
           technical |-> << <<"P","y","t","h","o","n">>, <<"R","e","a","c","t">> >>],
          \* an engineer turned product owner
          [roles     |-> <<Role(t_ProductOwner, <<2>>), Role(t_SoftwareEngineer, <<6>>)>>,
           technical |-> << <<"P","y","t","h","o","n">> >>],
          \* a designer
          [roles     |-> <<Role(t_UXDesigner, <<>>)>>,
           technical |-> << <<"F","i","g","m","a">> >>],
          \* a resume in which nothing was recognised
          [roles     |-> <<>>, technical |-> <<>>] } }

\* No file, no request and no job search.
InitNoFile == file = [ext |-> <<>>, readable |-> FALSE, text |-> <<>>]
InitNoRequest ==
    req = [hasFile |-> FALSE, onDisk |-> FALSE, unlinks |-> 0, rendering |-> <<>>,
           responses |-> <<>>, error |-> ""]
InitNoSearch == apis = <<>>

InitCall ==
    /\ InitNoFile /\ InitNoRequest /\ InitNoSearch
    /\ scores = [total |-> 0]
    /\ locals = <<>>
    /\ result = [recommended |-> <<>>, worthExploring |-> <<>>, all |-> <<>>]
    /\ pc = "start"

InitBatch ==
    /\ resumeData \in ProfilePool
    /\ jobs \in SeqsUpTo(JobPool, MaxJobs)
    /\ InitCall

(* Inputs of the role-alignment runs: one posting, profiles of every short *)
(* career over the role titles                                             *)

RoleTitlePool ==
    {t_SoftwareEngineer, t_FrontendEngineer, t_UXDesigner, t_ProductManager, t_DataAnalyst,
     t_DataEngineer}

RoleJobTitles ==
    {<<>>, t_FrontendDeveloper, t_SoftwareEngineer, t_UXDesigner, t_SeniorProductManager,
     t_DataEngineer, t_EngineeringManager, t_DirectorOfDesign, t_AccountExecutive}

RoleProfiles ==
    LET WithAndWithout(parsed) == parsed \cup {WithoutPrimaryRole(p) : p \in parsed}
    IN  WithAndWithout({Profile([i \in 1..Len(ts) |-> Role(ts[i], <<>>)], <<>>) :
                           ts \in DistinctSeqsUpTo(RoleTitlePool, MaxRoles)})

InitRole ==
    /\ resumeData \in RoleProfiles
    /\ jobs \in {<<Job(t, c_Adobe, <<>>)>> : t \in RoleJobTitles}
    /\ InitCall

(* Inputs of the experience runs: one posting of every level, careers of   *)
(* two roles, the first with every number of years                         *)

CareerStarts ==
    {<<t_SoftwareEngineer, t_ProjectManager>>, <<t_ProductOwner, t_ProjectManager>>,
     <<t_UXDesigner, t_ProjectManager>>, <<t_DataAnalyst, t_ProjectManager>>,
     <<t_ProjectManager, t_SoftwareEngineer>>}

YearsPool == {<<>>} \cup {<<y>> : y \in (0 - MaxDeficit)..MaxCategoryYears}

ExperienceProfiles ==
    {Profile(<<Role(c[1], y), Role(c[2], z)>>, <<>>) :
        c \in CareerStarts, y \in YearsPool, z \in {<<>>, <<6>>, <<30>>}}

LevelJobTitles ==
    {t_SoftwareEngineeringIntern, t_JuniorDeveloper, t_SoftwareEngineer,
     t_SeniorProductManager, t_ProductManager, t_StaffEngineer, t_PrincipalEngineer,
     t_TechLead, t_EngineeringManager, t_DirectorOfDesign, t_VPOfSales,
     t_EntryLevelDataAnalyst, t_UXDesigner, t_AccountExecutive}

InitExperience ==
    /\ resumeData \in ExperienceProfiles
    /\ jobs \in {<<Job(t, c_Adobe, <<>>)>> : t \in LevelJobTitles}
    /\ InitCall

(* Inputs of the content runs: one posting, every short skill list *)

SkillPool == << <<"P","y","t","h","o","n">>,
                <<"J","a","v","a">>,
                <<"R","u","s","t">>,
                <<"R","e","a","c","t">>,
                <<"D","j","a","n","g","o">> >>

DescriptionPool ==
    {<<>>,
     <<"p","y","t","h","o","n"," ","a","n","d"," ","r","e","a","c","t">>,
     <<"w","e"," ","u","s","e"," ","r","u","s","t">>,
     <<"r","u","s","t"," ","d","j","a","n","g","o"," ","f","l","a","s","k">>,
     <<"p","y","t","h","o","n"," ","j","a","v","a"," ","r","e","a","c","t"," ",
       "n","o","d","e"," ","a","w","s"," ","s","q","l"," ","d","o","c","k","e","r"," ",
       "k","u","b","e","r","n","e","t","e","s"," ","a","g","i","l","e">>,
     <<"j","a","v","a","s","c","r","i","p","t">>}

InitContent ==
    /\ resumeData \in {Profile(<<>>, technical) : technical \in OrderedPicks(SkillPool, MaxSkills)}
    /\ jobs \in {<<Job(t, c_Adobe, d)>> : t \in {t_SoftwareEngineer, t_AccountExecutive},
                                          d \in DescriptionPool}
    /\ InitCall

(* Inputs of the confidence runs: every total of two decimals *)

InitConfidence ==
    /\ resumeData = Profile(<<>>, <<>>)
    /\ jobs = <<>>
    /\ scores \in [total : 0..MaxTotal]
    /\ locals = <<>>
    /\ result = 0
    /\ pc = "start"
    /\ InitNoFile /\ InitNoRequest /\ InitNoSearch

---------------------------------------------------------------------------
(* Operations *)

\* A call of matchJobs: the postings are scored, sorted and categorised; the
\* arguments are left as they are.
MatchJobs ==
    /\ pc = "start"
    /\ result' = matchJobs(resumeData, jobs)
    /\ locals' = [i \in 1..Len(jobs) |-> LocalsOf(resumeData, jobs[i])]
    /\ pc' = "returned"
    /\ UNCHANGED <<resumeData, jobs, scores, parserVars, serverVars, searchVars>>

Next == MatchJobs

Spec == InitBatch /\ [][Next]_vars


\* A call of calculateConfidence on a scores record.
CalculateConfidence ==
    /\ pc = "start"
    /\ result' = calculateConfidence(scores)
    /\ pc' = "returned"
    /\ UNCHANGED <<resumeData, jobs, scores, locals, parserVars, serverVars, searchVars>>

NextConfidence == CalculateConfidence

SpecRole == InitRole /\ [][Next]_vars

SpecExperience == InitExperience /\ [][Next]_vars

SpecContent == InitContent /\ [][Next]_vars

SpecConfidence == InitConfidence /\ [][NextConfidence]_vars

---------------------------------------------------------------------------
(* Properties of matchJobs *)

\* The posting a scored entry was made from.
PostingOf(scored) == Job(scored.title, scored.company, scored.description)

\* How often posting j occurs in the sequence of postings s.
Occurrences(s, j) == Cardinality({i \in 1..Len(s) : s[i] = j})

Range(s) == {s[i] : i \in 1..Len(s)}

Orderings(n) == {p \in [1..n -> 1..n] : \A i, j \in 1..n : i # j => p[i] # p[j]}

\* C1: `all` holds exactly one scored entry per input posting: it is as long
\* as the input, and every posting occurs in it as often as in the input,
\* the postings of neither category included.
C1_AllHasEveryPosting ==
    pc = "returned" =>
        /\ Len(result.all) = Len(jobs)
        /\ \A j \in Range(jobs) \cup {PostingOf(e) : e \in Range(result.all)} :
              Occurrences([i \in 1..Len(result.all) |-> PostingOf(result.all[i])], j)
                 = Occurrences(jobs, j)

\* A batch of three postings of which one falls in neither category.
C1_Witness ==
    /\ pc = "returned"
    /\ Len(jobs) = 3
    /\ \E e \in Range(result.all) :
          e \notin Range(result.recommended) \cup Range(result.worthExploring)
    /\ result.recommended # <<>>

\* C2: no scored posting is in both `recommended` and `worthExploring`, and
\* every element of either list is an element of `all`.
C2_CategoriesDisjointWithinAll ==
    pc = "returned" =>
        /\ Range(result.recommended) \cap Range(result.worthExploring) = {}
        /\ Range(result.recommended) \subseteq Range(result.all)
        /\ Range(result.worthExploring) \subseteq Range(result.all)

\* A result with postings in both categories.
C2_Witness ==
    /\ pc = "returned"
    /\ result.recommended # <<>>
    /\ result.worthExploring # <<>>

\* C3: `all` is the input in the order of a stable descending sort by total:
\* some permutation p takes the input to `all`, totals never increase along
\* `all`, and entries of equal total stand in their input order.
C3_AllSortedStable ==
    pc = "returned" =>
        \E p \in Orderings(Len(jobs)) :
            /\ \A i \in 1..Len(jobs) :
                  /\ PostingOf(result.all[i]) = jobs[p[i]]
                  /\ result.all[i].scores = locals[p[i]].scores
            /\ \A i, j \in 1..Len(jobs) :
                  i < j => /\ result.all[i].scores.total >= result.all[j].scores.total
                           /\ (result.all[i].scores.total = result.all[j].scores.total
                                  => p[i] < p[j])

\* Two different postings of equal total behind a posting of lower total:
\* the sort moved them forward and kept their order.
C3_Witness ==
    /\ pc = "returned"
    /\ Len(jobs) = 3
    /\ locals[1].scores.total < locals[2].scores.total
    /\ locals[2].scores.total = locals[3].scores.total
    /\ jobs[2] # jobs[3]
    /\ PostingOf(result.all[1]) = jobs[2]
    /\ PostingOf(result.all[2]) = jobs[3]

\* C4: total is 0.40 role + 0.35 experience + 0.25 content to two decimals
\* (in hundredths: 40 role + 35 experience + 25 content), and role,
\* experience, content and total lie in 0..100.
C4_TotalIsWeightedSum ==
    pc = "returned" =>
        \A e \in Range(result.all) :
            /\ e.scores.total = 40 * e.scores.role + 35 * e.scores.experience
                                   + 25 * e.scores.content
            /\ e.scores.role \in 0..100
            /\ e.scores.experience \in 0..100
            /\ e.scores.content \in 0..100
            /\ e.scores.total \in 0..10000

\* A posting whose three sub-scores differ and whose total has decimals.
C4_Witness ==
    /\ pc = "returned"
    /\ \E e \in Range(result.all) :
          /\ e.scores.role # e.scores.experience
          /\ e.scores.experience # e.scores.content
          /\ e.scores.role # e.scores.content
          /\ e.scores.total % 100 # 0

---------------------------------------------------------------------------
(* Properties of the role score *)

\* The lower-cased titles the role score of the posting compares.
JobTitle == toLowerCase(jobs[1].title)

PrimaryTitle == toLowerCase(resumeData.primaryRole.title)

RoleScore == result.all[1].scores.role

MatchesPrimary == titlesMatch(JobTitle, PrimaryTitle)

MatchesHistorical ==
    \E i \in 1..Len(resumeData.roles) :
        titlesMatch(JobTitle, toLowerCase(resumeData.roles[i].title))

SharesFamily == sameRoleFamily(JobTitle, PrimaryTitle)

OverlapsType == relatedRoleType(JobTitle, resumeData.primaryRole.type)

\* C5: the role score is one of 100, 85, 70, 50, 20, decided by the first
\* of these that holds: the title matches the primary role, matches a
\* historical role, shares a family with the primary role, overlaps the
\* keywords of the primary type; it is never 0, an empty job title or an
\* empty primary title included.
C5_RoleLadder ==
    pc = "returned" =>
        /\ RoleScore \in {100, 85, 70, 50, 20}
        /\ MatchesPrimary => RoleScore = 100
        /\ ~MatchesPrimary /\ MatchesHistorical => RoleScore = 85
        /\ ~MatchesPrimary /\ ~MatchesHistorical /\ SharesFamily => RoleScore = 70
        /\ ~MatchesPrimary /\ ~MatchesHistorical /\ ~SharesFamily /\ OverlapsType
              => RoleScore = 50
        /\ ~MatchesPrimary /\ ~MatchesHistorical /\ ~SharesFamily /\ ~OverlapsType
              => RoleScore = 20
        /\ (JobTitle = <<>> \/ PrimaryTitle = <<>>) => RoleScore # 0

\* A posting that matches an earlier role and shares the family of the
\* primary role without matching it: the earlier rung decides.
C5_Witness ==
    /\ pc = "returned"
    /\ ~MatchesPrimary
    /\ MatchesHistorical
    /\ SharesFamily
    /\ RoleScore = 85

\* Both titles contain a variant (canonical name or synonym) of one entry of
\* the synonym table.
SameSynonymEntry(title1, title2) ==
    \E e \in 1..Len(roleSynonyms) :
        LET variants == {roleSynonyms[e].canonical} \cup Range(roleSynonyms[e].synonyms)
        IN  /\ \E v \in variants : includes(title1, v)
            /\ \E v \in variants : includes(title2, v)

OneContainsOther(title1, title2) == includes(title1, title2) \/ includes(title2, title1)

\* The second half of C6: "Software Engineer" against a profile whose only
\* role and primary role is "UX Designer" scores at most 50.
UnrelatedExample ==
    (/\ jobs[1].title = t_SoftwareEngineer
     /\ Len(resumeData.roles) = 1
     /\ resumeData.roles[1].title = t_UXDesigner
     /\ resumeData.primaryRole.title = t_UXDesigner) => RoleScore <= 50

\* C6 as stated: whenever the job title and the primary title contain
\* variants of one synonym entry, or one title contains the other, the role
\* score is 100.
C6_AnyContainmentScores100 ==
    pc = "returned" =>
        /\ (SameSynonymEntry(JobTitle, PrimaryTitle) \/ OneContainsOther(JobTitle, PrimaryTitle))
              => RoleScore = 100
        /\ UnrelatedExample

\* C6 amended: the same for two non-empty titles (an empty or absent title
\* matches nothing, although every string contains the empty string);
\* matching is symmetric in the two titles.
C6_NonEmptyTitlesMatch ==
    pc = "returned" =>
        /\ (/\ JobTitle # <<>>
            /\ PrimaryTitle # <<>>
            /\ \/ SameSynonymEntry(JobTitle, PrimaryTitle)
               \/ OneContainsOther(JobTitle, PrimaryTitle))
              => RoleScore = 100
        /\ titlesMatch(JobTitle, PrimaryTitle) = titlesMatch(PrimaryTitle, JobTitle)
        /\ UnrelatedExample

\* "Frontend Developer" against the primary role "Frontend Engineer":
\* neither contains the other, the synonym entry joins them.
C6_Witness ==
    /\ pc = "returned"
    /\ jobs[1].title = t_FrontendDeveloper
    /\ resumeData.primaryRole.title = t_FrontendEngineer
    /\ ~OneContainsOther(JobTitle, PrimaryTitle)
    /\ RoleScore = 100

---------------------------------------------------------------------------
(* Properties of the experience score *)

\* The bands (min, max) as the specification lists them.
ClaimedBands ==
    [intern |-> <<0, 0>>, entry |-> <<0, 2>>, junior |-> <<0, 2>>, mid |-> <<2, 5>>,
     senior |-> <<5, 10>>, staff |-> <<7, 15>>, principal |-> <<10, 20>>,
     lead |-> <<5, 15>>, manager |-> <<5, 15>>, director |-> <<8, 20>>, vp |-> <<10, 25>>]

\* C7: before the pivot block the score is the first that applies of
\* 100 if min <= r <= max+2, 80 if min-1 <= r <= max+3,
\* max(0, 70 - 15(min - r)) if r < min, max(40, 90 - 10(r - max)) otherwise,
\* with the bands of ClaimedBands.
C7_BandScore ==
    /\ DOMAIN experienceLevels = DOMAIN ClaimedBands
    /\ \A level \in DOMAIN ClaimedBands :
          LevelRequirements(level) = [min |-> ClaimedBands[level][1],
                                      max |-> ClaimedBands[level][2]]
    /\ pc = "returned" =>
          LET r   == locals[1].relevantExperience
              min == ClaimedBands[locals[1].jobLevel][1]
              max == ClaimedBands[locals[1].jobLevel][2]
          IN  /\ (min <= r /\ r <= max + 2) => locals[1].band = 100
              /\ (~(min <= r /\ r <= max + 2) /\ min - 1 <= r /\ r <= max + 3)
                    => locals[1].band = 80
              /\ r < min - 1 => locals[1].band = Max(0, 70 - 15 * (min - r))
              /\ r > max + 3 => locals[1].band = Max(40, 90 - 10 * (r - max))

\* One year short of a senior band: the close-fit test comes before the
\* under-qualified one.
C7_Witness ==
    /\ pc = "returned"
    /\ locals[1].jobLevel = "senior"
    /\ locals[1].relevantExperience = 4
    /\ locals[1].band = 80

PivotTrigger == resumeData.totalYearsExperience > 5 /\ locals[1].relevantExperience < 3

ExperienceScore == result.all[1].scores.experience

\* C8: with total experience above 5 and relevant experience below 3 the
\* experience score is at most 40 for senior, lead and manager postings and
\* at least 70 for junior, entry and mid postings (total 8 with 2 Product
\* years: at most 40 for "Senior Product Manager", at least 70 for "Product
\* Manager"); without the trigger it is the band score.
C8_CareerPivot ==
    pc = "returned" =>
        /\ (PivotTrigger /\ locals[1].jobLevel \in {"senior", "lead", "manager"})
              => ExperienceScore <= 40
        /\ (PivotTrigger /\ locals[1].jobLevel \in {"junior", "entry", "mid"})
              => ExperienceScore >= 70
        /\ ~PivotTrigger => ExperienceScore = locals[1].band
        /\ (/\ resumeData.totalYearsExperience = 8
            /\ YearsOf(resumeData.experienceByRole, "Product") = 2)
              => /\ jobs[1].title = t_SeniorProductManager => ExperienceScore <= 40
                 /\ jobs[1].title = t_ProductManager => ExperienceScore >= 70

\* A pivoter scored for a mid-level posting whose band score is below 70.
C8_Witness ==
    /\ pc = "returned"
    /\ PivotTrigger
    /\ locals[1].jobLevel = "mid"
    /\ locals[1].band < 70
    /\ ExperienceScore = 70

---------------------------------------------------------------------------
(* Properties of the content score *)

ContentScore == result.all[1].scores.content

\* C9: with matched candidate skills and ref reference terms in the text,
\* the score is 75 (some skill) or 50 (no skill) when ref = 0 and
\* min(100, round(120 matched / ref)) otherwise; always an integer of 0..100.
C9_ContentScore ==
    pc = "returned" =>
        LET matched == locals[1].matchedSkills
            ref     == locals[1].totalJobSkills
        IN  /\ (ref = 0 /\ Len(resumeData.skills.technical) >= 1) => ContentScore = 75
            /\ (ref = 0 /\ Len(resumeData.skills.technical) = 0) => ContentScore = 50
            /\ ref > 0 => ContentScore = Min(100, (240 * matched + ref) \div (2 * ref))
            /\ ContentScore \in 0..100

\* More candidate skills in the text than reference terms.
C9_Witness ==
    /\ pc = "returned"
    /\ locals[1].totalJobSkills > 0
    /\ locals[1].matchedSkills > locals[1].totalJobSkills
    /\ ContentScore = 100

---------------------------------------------------------------------------
(* Properties of the confidence *)

\* C10: the confidence never decreases when the total grows (stated for
\* every pair of totals up to MaxStep hundredths apart, which chains to
\* every pair), and at 40, 60 and 85 the value one hundredth below the
\* boundary and the value at it differ by at most 1, the rounding unit.
C10_ConfidenceMonotone ==
    pc = "returned" =>
        /\ \A d \in 1..MaxStep :
              scores.total - d >= 0
                 => calculateConfidence([total |-> scores.total - d]) <= result
        /\ scores.total \in {4000, 6000, 8500}
              => result - calculateConfidence([total |-> scores.total - 1]) <= 1

\* The total 60.00, where the band changes and the value steps from 69 to 70.
C10_Witness ==
    /\ pc = "returned"
    /\ scores.total = 6000
    /\ result = 70
    /\ calculateConfidence([total |-> 5999]) = 69

---------------------------------------------------------------------------
(* Properties of the confidence and the categories of a batch *)

\* C11: every scored posting of the result carries the confidence of its
\* scores, an integer of 0..100 that is at most 95.
C11_ConfidenceWithinCap ==
    pc = "returned" =>
        \A e \in Range(result.all) :
            /\ e.confidence = calculateConfidence(e.scores)
            /\ e.confidence \in 0..100
            /\ e.confidence <= 95

\* A batch with a posting of total 100.00, whose confidence is the cap, and
\* a posting of a confidence below 50.
C11_Witness ==
    /\ pc = "returned"
    /\ \E e \in Range(result.all) : e.scores.total = 10000 /\ e.confidence = 95
    /\ \E e \in Range(result.all) : e.confidence < 50

\* The category a confidence puts a posting in.
CategoryOf(confidence) ==
    IF 90 <= confidence /\ confidence <= 95 THEN "recommended"
    ELSE IF 70 <= confidence /\ confidence < 90 THEN "worthExploring"
    ELSE "unranked"

\* The lists of the result the scored posting e is in.
ListsOf(e) ==
    {l \in {"recommended", "worthExploring", "all"} : e \in Range(result[l])}

\* C12: a scored posting is in `recommended` iff 90 <= confidence <= 95, in
\* `worthExploring` iff 70 <= confidence < 90 and otherwise in `all` only;
\* the lists hold scored postings of `all` only, so postings of equal
\* confidence are in the same lists.
C12_CategoryByConfidence ==
    pc = "returned" =>
        /\ \A e \in Range(result.all) :
              /\ ("recommended" \in ListsOf(e)) <=> (90 <= e.confidence /\ e.confidence <= 95)
              /\ ("worthExploring" \in ListsOf(e)) <=> (70 <= e.confidence /\ e.confidence < 90)
              /\ CategoryOf(e.confidence) = "unranked" => ListsOf(e) = {"all"}
        /\ \A e, f \in Range(result.all) : e.confidence = f.confidence => ListsOf(e) = ListsOf(f)
        /\ Range(result.recommended) \cup Range(result.worthExploring) \subseteq Range(result.all)

\* Two different postings of confidence 95 in `recommended`, beside a
\* posting that is in `all` only.
C12_Witness ==
    /\ pc = "returned"
    /\ \E e, f \in Range(result.recommended) : e # f /\ e.confidence = 95 /\ f.confidence = 95
    /\ \E e \in Range(result.all) : ListsOf(e) = {"all"}

---------------------------------------------------------------------------
(* JobMatcher called with objects that lack fields *)

\* A field the object lacks reads as undefined.
Has(obj, f) == f \in DOMAIN obj

\* The reads of the scoring of one posting that raise a TypeError, a property
\* read off undefined, for objects that hold experienceByRole,
\* totalYearsExperience and company:
\*   job.title.toLowerCase()              (calculateRoleScore)
\*   resumeData.roles.map(...)            (calculateRoleScore)
\*   resumeData.skills.technical.map(...) (calculateContentScore)
\*   resumeData.keywords.map(...)         (calculateContentScore)
RaisesTypeError(profile, job) ==
    \/ ~Has(job, "title")
    \/ ~Has(profile, "roles")
    \/ ~Has(profile, "skills")
    \/ (Has(profile, "skills") /\ ~Has(profile.skills, "technical"))
    \/ ~Has(profile, "keywords")

\* What resumeData.primaryRole?.title?.toLowerCase() || '' and
\* resumeData.primaryRole?.type read of a profile without primaryRole.
ProfileWithDefaults(profile) ==
    [f \in DOMAIN profile \cup {"primaryRole"} |->
        IF f = "primaryRole" /\ ~Has(profile, f) THEN [type |-> "", title |-> <<>>]
        ELSE profile[f]]

\* What (job.description || '') reads of a posting without description.
JobWithDefaults(job) ==
    [f \in DOMAIN job \cup {"description"} |->
        IF f = "description" /\ ~Has(job, f) THEN <<>> ELSE job[f]]

\* {...job, matchScore, scores, confidence}: the fields of the posting as
\* they are, a missing description staying missing.
ScoreRawJob(profile, job) ==
    LET Spread(scored) ==
            [f \in DOMAIN job \cup {"matchScore", "scores", "confidence"} |-> scored[f]]
    IN  Spread(ScoreJob(ProfileWithDefaults(profile), JobWithDefaults(job)))

\* matchJobs over such objects, when no read raises.
matchRawJobs(profile, postings) ==
    LET Categorised(scoredJobs) ==
            [recommended    |-> SelectSeq(scoredJobs, IsRecommended),
             worthExploring |-> SelectSeq(scoredJobs, IsWorthExploring),
             all            |-> scoredJobs]
    IN  Categorised(SortByMatchScore([i \in 1..Len(postings) |->
                                         ScoreRawJob(profile, postings[i])]))

\* obj without the fields fs.
Without(obj, fs) == [f \in DOMAIN obj \ fs |-> obj[f]]

(* Inputs: the profiles and postings of the batch runs with fields removed *)

RawProfiles ==
    LET Stripped(p) ==
            {Without(p, fs) : fs \in SUBSET {"roles", "skills", "keywords", "primaryRole"}}
               \cup {[p EXCEPT !.skills = Without(p.skills, {"technical"})]}
    IN  UNION {Stripped(p) : p \in ProfilePool}

RawJobs ==
    UNION {{j, Without(j, {"description"}), Without(j, {"title"})} :
              j \in {Job(t_SoftwareEngineer, c_Adobe,
                         <<"p","y","t","h","o","n"," ","a","n","d"," ","r","e","a","c","t">>),
                     Job(t_UXDesigner, c_Sketch, <<>>)}}

InitMalformed ==
    /\ resumeData \in RawProfiles
    /\ jobs \in SeqsUpTo(RawJobs, MaxJobs - 1)
    /\ InitCall

\* A call of matchJobs: jobs.map raises at the first posting whose scoring
\* reads a property of undefined, and nothing is returned; otherwise the
\* postings are scored, sorted and categorised.
MatchRawJobs ==
    /\ pc = "start"
    /\ IF \E i \in 1..Len(jobs) : RaisesTypeError(resumeData, jobs[i])
       THEN /\ result' = "TypeError"
            /\ locals' = <<>>
            /\ pc' = "threw"
       ELSE /\ result' = matchRawJobs(resumeData, jobs)
            /\ locals' = [i \in 1..Len(jobs) |->
                             LocalsOf(ProfileWithDefaults(resumeData), JobWithDefaults(jobs[i]))]
            /\ pc' = "returned"
    /\ UNCHANGED <<resumeData, jobs, scores, parserVars, serverVars, searchVars>>

NextMalformed == MatchRawJobs

SpecMalformed == InitMalformed /\ [][NextMalformed]_vars

\* C13: matchJobs never fails: with nothing but a description, the skills or
\* the primaryRole missing, the call returns a result with one scored entry per
\* posting, the role score 20 or 85 without a primaryRole, and the content
\* score 50 or 75 when there is no skill or no reference term to compare.
C13_NeverFails ==
    (/\ pc # "start"
     /\ DOMAIN Profile(<<>>, <<>>) \ DOMAIN resumeData \subseteq {"skills", "primaryRole"}
     /\ \A i \in 1..Len(jobs) : {"title", "company"} \subseteq DOMAIN jobs[i]) =>
        /\ pc = "returned"
        /\ Len(result.all) = Len(jobs)
        /\ \A i \in 1..Len(jobs) :
              /\ ~Has(resumeData, "primaryRole") => locals[i].scores.role \in {20, 85}
              /\ locals[i].totalJobSkills = 0 => locals[i].scores.content \in {50, 75}

\* C13, what holds of the call: it raises exactly when a posting is scored while
\* roles, skills, skills.technical, keywords or the title are missing; a
\* missing description scores as the empty description and a missing
\* primaryRole gives the role score 20 or 85.
C13_RaisesWithoutSkills ==
    pc # "start" =>
        /\ pc = "threw" <=> \E i \in 1..Len(jobs) : RaisesTypeError(resumeData, jobs[i])
        /\ pc = "returned" =>
              /\ Len(result.all) = Len(jobs)
              /\ \A i \in 1..Len(jobs) :
                    /\ ~Has(resumeData, "primaryRole") => locals[i].scores.role \in {20, 85}
                    /\ ~Has(jobs[i], "description") =>
                          locals[i].scores = calculateMatchScore(ProfileWithDefaults(resumeData),
                                                 Job(jobs[i].title, jobs[i].company, <<>>))

\* A profile that lacks nothing but skills, and one complete posting: the
\* call raised.
C13_Witness ==
    /\ pc = "threw"
    /\ DOMAIN resumeData = DOMAIN Profile(<<>>, <<>>) \ {"skills"}
    /\ Len(jobs) = 1
    /\ DOMAIN jobs[1] = {"title", "company", "description"}

---------------------------------------------------------------------------
(* ResumeParser: from the text of a resume to the profile *)

\* The role titles the line scan of extractRoles looks for, in their order.
roleTitles ==
    << <<"s","o","f","t","w","a","r","e"," ","e","n","g","i","n","e","e","r">>,
       <<"s","e","n","i","o","r"," ","s","o","f","t","w","a","r","e"," ","e","n","g","i","n","e","e","r">>,
       <<"s","t","a","f","f"," ","e","n","g","i","n","e","e","r">>,
       <<"p","r","i","n","c","i","p","a","l"," ","e","n","g","i","n","e","e","r">>,
       <<"f","r","o","n","t","e","n","d"," ","e","n","g","i","n","e","e","r">>,
       <<"b","a","c","k","e","n","d"," ","e","n","g","i","n","e","e","r">>,
       <<"f","u","l","l"," ","s","t","a","c","k"," ","e","n","g","i","n","e","e","r">>,
       <<"f","u","l","l","s","t","a","c","k"," ","e","n","g","i","n","e","e","r">>,
       <<"d","e","v","o","p","s"," ","e","n","g","i","n","e","e","r">>,
       <<"s","i","t","e"," ","r","e","l","i","a","b","i","l","i","t","y"," ","e","n","g","i","n","e","e","r">>,
       <<"s","r","e">>,
       <<"p","l","a","t","f","o","r","m"," ","e","n","g","i","n","e","e","r">>,
       <<"d","a","t","a"," ","e","n","g","i","n","e","e","r">>,
       <<"m","a","c","h","i","n","e"," ","l","e","a","r","n","i","n","g"," ","e","n","g","i","n","e","e","r">>,
       <<"m","l"," ","e","n","g","i","n","e","e","r">>,
       <<"a","i"," ","e","n","g","i","n","e","e","r">>,
       <<"q","a"," ","e","n","g","i","n","e","e","r">>,
       <<"t","e","s","t"," ","e","n","g","i","n","e","e","r">>,
       <<"a","u","t","o","m","a","t","i","o","n"," ","e","n","g","i","n","e","e","r">>,
       <<"p","r","o","d","u","c","t"," ","m","a","n","a","g","e","r">>,
       <<"s","e","n","i","o","r"," ","p","r","o","d","u","c","t"," ","m","a","n","a","g","e","r">>,
       <<"p","r","o","d","u","c","t"," ","o","w","n","e","r">>,
       <<"p","r","o","g","r","a","m"," ","m","a","n","a","g","e","r">>,
       <<"p","r","o","d","u","c","t"," ","d","e","s","i","g","n","e","r">>,
       <<"u","x"," ","d","e","s","i","g","n","e","r">>,
       <<"u","i"," ","d","e","s","i","g","n","e","r">>,
       <<"u","x","/","u","i"," ","d","e","s","i","g","n","e","r">>,
       <<"g","r","a","p","h","i","c"," ","d","e","s","i","g","n","e","r">>,
       <<"v","i","s","u","a","l"," ","d","e","s","i","g","n","e","r">>,
       <<"i","n","t","e","r","a","c","t","i","o","n"," ","d","e","s","i","g","n","e","r">>,
       <<"d","a","t","a"," ","s","c","i","e","n","t","i","s","t">>,
       <<"d","a","t","a"," ","a","n","a","l","y","s","t">>,
       <<"b","u","s","i","n","e","s","s"," ","a","n","a","l","y","s","t">>,
       <<"a","n","a","l","y","t","i","c","s"," ","e","n","g","i","n","e","e","r">>,
       <<"e","n","g","i","n","e","e","r","i","n","g"," ","m","a","n","a","g","e","r">>,
       <<"t","e","c","h","n","i","c","a","l"," ","l","e","a","d">>,
       <<"t","e","c","h"," ","l","e","a","d">>,
       <<"t","e","a","m"," ","l","e","a","d">>,
       <<"d","i","r","e","c","t","o","r"," ","o","f"," ","e","n","g","i","n","e","e","r","i","n","g">>,
       <<"v","p"," ","o","f"," ","e","n","g","i","n","e","e","r","i","n","g">>,
       <<"c","t","o">>,
       <<"c","e","o">>,
       <<"p","r","o","j","e","c","t"," ","m","a","n","a","g","e","r">>,
       <<"s","c","r","u","m"," ","m","a","s","t","e","r">>,
       <<"a","g","i","l","e"," ","c","o","a","c","h">>,
       <<"m","a","r","k","e","t","i","n","g"," ","m","a","n","a","g","e","r">>,
       <<"d","i","g","i","t","a","l"," ","m","a","r","k","e","t","i","n","g">>,
       <<"c","o","n","t","e","n","t"," ","m","a","n","a","g","e","r">>,
       <<"s","e","o"," ","s","p","e","c","i","a","l","i","s","t">>,
       <<"s","a","l","e","s"," ","m","a","n","a","g","e","r">>,
       <<"a","c","c","o","u","n","t"," ","e","x","e","c","u","t","i","v","e">>,
       <<"b","u","s","i","n","e","s","s"," ","d","e","v","e","l","o","p","m","e","n","t">>,
       <<"c","o","n","s","u","l","t","a","n","t">>,
       <<"a","n","a","l","y","s","t">>,
       <<"s","p","e","c","i","a","l","i","s","t">>,
       <<"c","o","o","r","d","i","n","a","t","o","r">>,
       <<"a","d","m","i","n","i","s","t","r","a","t","o","r">>,
       <<"i","n","t","e","r","n">>,
       <<"a","s","s","o","c","i","a","t","e">>,
       <<"j","u","n","i","o","r">>,
       <<"s","e","n","i","o","r">>,
       <<"l","e","a","d">>,
       <<"h","e","a","d"," ","o","f">>,
       <<"c","h","i","e","f">> >>

\* The vocabulary of extractSkills, in its order.
technicalSkills ==
    << <<"j","a","v","a","s","c","r","i","p","t">>,
       <<"t","y","p","e","s","c","r","i","p","t">>,
       <<"p","y","t","h","o","n">>,
       <<"j","a","v","a">>,
       <<"c","+","+">>,
       <<"c","#">>,
       <<"g","o">>,
       <<"g","o","l","a","n","g">>,
       <<"r","u","s","t">>,
       <<"r","u","b","y">>,
       <<"p","h","p">>,
       <<"s","w","i","f","t">>,
       <<"k","o","t","l","i","n">>,
       <<"s","c","a","l","a">>,
       <<"r">>,
       <<"m","a","t","l","a","b">>,
       <<"s","q","l">>,
       <<"r","e","a","c","t">>,
       <<"r","e","a","c","t","j","s">>,
       <<"r","e","a","c","t",".","j","s">>,
       <<"a","n","g","u","l","a","r">>,
       <<"v","u","e">>,
       <<"v","u","e","j","s">>,
       <<"v","u","e",".","j","s">>,
       <<"s","v","e","l","t","e">>,
       <<"n","e","x","t",".","j","s">>,
       <<"n","e","x","t","j","s">>,
       <<"n","u","x","t">>,
       <<"g","a","t","s","b","y">>,
       <<"h","t","m","l">>,
       <<"c","s","s">>,
       <<"s","a","s","s">>,
       <<"s","c","s","s">>,
       <<"t","a","i","l","w","i","n","d">>,
       <<"n","o","d","e",".","j","s">>,
       <<"n","o","d","e","j","s">>,
       <<"e","x","p","r","e","s","s">>,
       <<"d","j","a","n","g","o">>,
       <<"f","l","a","s","k">>,
       <<"f","a","s","t","a","p","i">>,
       <<"s","p","r","i","n","g">>,
       <<"s","p","r","i","n","g"," ","b","o","o","t">>,
       <<".","n","e","t">>,
       <<"r","a","i","l","s">>,
       <<"l","a","r","a","v","e","l">>,
       <<"g","r","a","p","h","q","l">>,
       <<"r","e","s","t"," ","a","p","i">>,
       <<"m","i","c","r","o","s","e","r","v","i","c","e","s">>,
       <<"m","y","s","q","l">>,
       <<"p","o","s","t","g","r","e","s","q","l">>,
       <<"p","o","s","t","g","r","e","s">>,
       <<"m","o","n","g","o","d","b">>,
       <<"r","e","d","i","s">>,
       <<"e","l","a","s","t","i","c","s","e","a","r","c","h">>,
       <<"d","y","n","a","m","o","d","b">>,
       <<"c","a","s","s","a","n","d","r","a">>,
       <<"s","q","l","i","t","e">>,
       <<"o","r","a","c","l","e">>,
       <<"s","q","l"," ","s","e","r","v","e","r">>,
       <<"a","w","s">>,
       <<"a","m","a","z","o","n"," ","w","e","b"," ","s","e","r","v","i","c","e","s">>,
       <<"a","z","u","r","e">>,
       <<"g","c","p">>,
       <<"g","o","o","g","l","e"," ","c","l","o","u","d">>,
       <<"d","o","c","k","e","r">>,
       <<"k","u","b","e","r","n","e","t","e","s">>,
       <<"k","8","s">>,
       <<"t","e","r","r","a","f","o","r","m">>,
       <<"a","n","s","i","b","l","e">>,
       <<"j","e","n","k","i","n","s">>,
       <<"c","i","/","c","d">>,
       <<"g","i","t","h","u","b"," ","a","c","t","i","o","n","s">>,
       <<"g","i","t","l","a","b">>,
       <<"c","i","r","c","l","e","c","i">>,
       <<"t","e","n","s","o","r","f","l","o","w">>,
       <<"p","y","t","o","r","c","h">>,
       <<"s","c","i","k","i","t","-","l","e","a","r","n">>,
       <<"p","a","n","d","a","s">>,
       <<"n","u","m","p","y">>,
       <<"s","p","a","r","k">>,
       <<"h","a","d","o","o","p">>,
       <<"k","a","f","k","a">>,
       <<"a","i","r","f","l","o","w">>,
       <<"t","a","b","l","e","a","u">>,
       <<"p","o","w","e","r"," ","b","i">>,
       <<"g","i","t">>,
       <<"j","i","r","a">>,
       <<"c","o","n","f","l","u","e","n","c","e">>,
       <<"f","i","g","m","a">>,
       <<"s","k","e","t","c","h">>,
       <<"a","d","o","b","e"," ","x","d">>,
       <<"p","h","o","t","o","s","h","o","p">>,
       <<"a","g","i","l","e">>,
       <<"s","c","r","u","m">>,
       <<"k","a","n","b","a","n">> >>

\* The tiers of determineSeniorityLevel, in the order of their keys.
seniorityIndicators ==
    << [level |-> "entry",
        indicators |-> << <<"i","n","t","e","r","n">>,
                         <<"i","n","t","e","r","n","s","h","i","p">>,
                         <<"j","u","n","i","o","r">>,
                         <<"e","n","t","r","y"," ","l","e","v","e","l">>,
                         <<"a","s","s","o","c","i","a","t","e">>,
                         <<"g","r","a","d","u","a","t","e">>,
                         <<"t","r","a","i","n","e","e">> >>],
       [level |-> "mid",
        indicators |-> << <<"m","i","d","-","l","e","v","e","l">>,
                         <<"m","i","d"," ","l","e","v","e","l">>,
                         <<"i","n","t","e","r","m","e","d","i","a","t","e">>,
                         <<"2","+"," ","y","e","a","r","s">>,
                         <<"3","+"," ","y","e","a","r","s">>,
                         <<"2","-","4"," ","y","e","a","r","s">> >>],
       [level |-> "senior",
        indicators |-> << <<"s","e","n","i","o","r">>,
                         <<"s","r",".">>,
                         <<"l","e","a","d">>,
                         <<"p","r","i","n","c","i","p","a","l">>,
                         <<"5","+"," ","y","e","a","r","s">>,
                         <<"6","+"," ","y","e","a","r","s">>,
                         <<"7","+"," ","y","e","a","r","s">> >>],
       [level |-> "manager",
        indicators |-> << <<"m","a","n","a","g","e","r">>,
                         <<"d","i","r","e","c","t","o","r">>,
                         <<"h","e","a","d"," ","o","f">>,
                         <<"v","p">>,
                         <<"c","h","i","e","f">>,
                         <<"c","-","l","e","v","e","l">>,
                         <<"e","x","e","c","u","t","i","v","e">> >>] >>

(* Characters and the string methods the parser uses *)

UpperOf == [c \in {LowerOf[u] : u \in DOMAIN LowerOf} |->
              CHOOSE u \in DOMAIN LowerOf : LowerOf[u] = c]

\* [a-zA-Z]
IsLetter(c) == c \in DOMAIN LowerOf \/ c \in DOMAIN UpperOf

\* \d
IsDigit(c) == c \in {"0", "1", "2", "3", "4", "5", "6", "7", "8", "9"}

DigitValue ==
    ("0" :> 0) @@ ("1" :> 1) @@ ("2" :> 2) @@ ("3" :> 3) @@ ("4" :> 4) @@
    ("5" :> 5) @@ ("6" :> 6) @@ ("7" :> 7) @@ ("8" :> 8) @@ ("9" :> 9)

\* \s, of the characters the texts are written in
IsSpace(c) == c \in {" ", "\t", "\n"}

\* \w
IsWordChar(c) == IsLetter(c) \/ IsDigit(c) \/ c = "_"

Least(S) == CHOOSE x \in S : \A y \in S : x <= y

Greatest(S) == CHOOSE x \in S : \A y \in S : x >= y

\* String.prototype.trim
trim(s) ==
    LET Between(kept) == IF kept = {} THEN <<>> ELSE SubSeq(s, Least(kept), Greatest(kept))
    IN  Between({i \in 1..Len(s) : ~IsSpace(s[i])})

RECURSIVE split(_, _)
\* String.prototype.split on a one-character separator.
split(s, sep) ==
    LET Cut(at) == IF at = {} THEN <<s>>
                   ELSE <<SubSeq(s, 1, Least(at) - 1)>>
                           \o split(SubSeq(s, Least(at) + 1, Len(s)), sep)
    IN  Cut({i \in 1..Len(s) : s[i] = sep})

\* The word w stands in s at position i, whatever the case of the letters.
WordAt(s, i, w) ==
    /\ i >= 1
    /\ i + Len(w) - 1 <= Len(s)
    /\ toLowerCase(SubSeq(s, i, i + Len(w) - 1)) = w

\* The first position from i on that holds no white space (Len(s) + 1 at
\* the end of s): where a greedy \s* or \s+ started at i stops.
SkipSpaces(s, i) == Least({j \in i..(Len(s) + 1) : j = Len(s) + 1 \/ ~IsSpace(s[j])})

\* title.split(' ').map(word => word.charAt(0).toUpperCase()
\*     + word.slice(1).toLowerCase()).join(' ')
capitalizeTitle(title) ==
    [i \in 1..Len(title) |->
        IF i = 1 \/ title[i - 1] = " "
        THEN (IF title[i] \in DOMAIN UpperOf THEN UpperOf[title[i]] ELSE title[i])
        ELSE (IF title[i] \in DOMAIN LowerOf THEN LowerOf[title[i]] ELSE title[i])]

(* parseRoleLine: the years of /(\d{4})\s*[-–]\s*(\d{4}|present|current)/i *)

\* The en dash, one character of the text.
EnDash == "EN DASH"

\* \d{4} at position i.
Digits4At(s, i) == i + 3 <= Len(s) /\ \A k \in 0..3 : IsDigit(s[i + k])

\* parseInt of the four digits at position i.
ParseInt4(s, i) ==
    1000 * DigitValue[s[i]] + 100 * DigitValue[s[i + 1]] + 10 * DigitValue[s[i + 2]]
        + DigitValue[s[i + 3]]

\* EndYearAt with "present" and "current" taken for no end year.
EndYearAt_DigitsOnly(s, j, currentYear) ==
    IF Digits4At(s, j) THEN <<ParseInt4(s, j)>> ELSE <<>>

\* The end year the second group gives at position j: <<year>>, or <<>> when
\* the group does not match there.
EndYearAt(s, j, currentYear) ==
    IF Digits4At(s, j) THEN <<ParseInt4(s, j)>>
    ELSE IF WordAt(s, j, <<"p","r","e","s","e","n","t">>)
            \/ WordAt(s, j, <<"c","u","r","r","e","n","t">>) THEN <<currentYear>>
    ELSE <<>>

\* endYear - startYear of a match that starts at position i: <<years>>, or
\* <<>> when the pattern does not match there.
YearsAt(s, i, currentYear) ==
    LET After(dash) ==
            IF dash <= Len(s) /\ s[dash] \in {"-", EnDash}
            THEN EndYearAt(s, SkipSpaces(s, dash + 1), currentYear)
            ELSE <<>>
        Years(end) == IF end = <<>> THEN <<>> ELSE <<end[1] - ParseInt4(s, i)>>
    IN  IF Digits4At(s, i) THEN Years(After(SkipSpaces(s, i + 4))) ELSE <<>>

\* The role of a line in which the role title matchedRole was found: years of
\* the leftmost match of the year pattern, null (<<>>) without a match.
parseRoleLine(line, matchedRole, currentYear) ==
    LET YearsOfFirst(cleanLine, starts) ==
            IF starts = {} THEN <<>> ELSE YearsAt(cleanLine, Least(starts), currentYear)
        YearsIn(cleanLine) ==
            YearsOfFirst(cleanLine,
                {i \in 1..Len(cleanLine) : YearsAt(cleanLine, i, currentYear) # <<>>})
    IN  Role(capitalizeTitle(matchedRole), YearsIn(trim(line)))

(* extractRoles *)

RECURSIVE PushUnlessFound_LastWins(_, _)
\* PushUnlessFound with the role found before replaced by the candidate.
PushUnlessFound_LastWins(foundRoles, candidates) ==
    IF Len(candidates) = 0 THEN foundRoles
    ELSE PushUnlessFound_LastWins(
             IF \E k \in 1..Len(foundRoles) :
                   toLowerCase(foundRoles[k].title) = toLowerCase(candidates[1].title)
             THEN [k \in 1..Len(foundRoles) |->
                      IF toLowerCase(foundRoles[k].title) = toLowerCase(candidates[1].title)
                      THEN candidates[1] ELSE foundRoles[k]]
             ELSE Append(foundRoles, candidates[1]),
             Tail(candidates))

RECURSIVE PushUnlessFound(_, _)
\* foundRoles after the candidates were pushed in their order, each unless a
\* role of the same title, whatever the case, was found before.
PushUnlessFound(foundRoles, candidates) ==
    IF Len(candidates) = 0 THEN foundRoles
    ELSE PushUnlessFound(
             IF \E k \in 1..Len(foundRoles) :
                   toLowerCase(foundRoles[k].title) = toLowerCase(candidates[1].title)
             THEN foundRoles
             ELSE Append(foundRoles, candidates[1]),
             Tail(candidates))

RECURSIVE Flatten(_)
Flatten(seqs) == IF Len(seqs) = 0 THEN <<>> ELSE seqs[1] \o Flatten(Tail(seqs))

\* The roles the scan of one line yields, in the order of roleTitles.
RolesOfLine(line, currentYear) ==
    LET Found(matched) ==
            [k \in 1..Len(matched) |-> parseRoleLine(line, roleTitles[matched[k]], currentYear)]
    IN  Found(SelectSeq([r \in 1..Len(roleTitles) |-> r],
                        LAMBDA r : includes(trim(toLowerCase(line)), roleTitles[r])))

\* The words that end a title in the two role patterns, in their order.
titleSuffixes ==
    << <<"e","n","g","i","n","e","e","r">>,
       <<"d","e","v","e","l","o","p","e","r">>,
       <<"d","e","s","i","g","n","e","r">>,
       <<"m","a","n","a","g","e","r">>,
       <<"a","n","a","l","y","s","t">>,
       <<"s","c","i","e","n","t","i","s","t">>,
       <<"l","e","a","d">>,
       <<"d","i","r","e","c","t","o","r">>,
       <<"s","p","e","c","i","a","l","i","s","t">>,
       <<"c","o","n","s","u","l","t","a","n","t">> >>

\* [a-zA-Z\s]
InTitleClass(c) == IsLetter(c) \/ IsSpace(c)

\* [A-Za-z0-9\s&.]
InCompanyClass(c) == IsLetter(c) \/ IsDigit(c) \/ IsSpace(c) \/ c \in {"&", "."}

\* Where \s*X or \s+X ends when the white space starts at position u and X is
\* ([A-Za-z0-9\s&.]+), greedy: the white space is skipped and the company
\* runs on from the next character; if that character is not of the class,
\* the last white space is given back to the company.  0 when X cannot match;
\* least is the number of white-space characters the pattern asks for.
CompanyEnd(s, u, least) ==
    LET RunEnd(from) ==
            Greatest({e \in from..Len(s) : \A k \in from..e : InCompanyClass(s[k])})
        From(v) ==
            IF v <= Len(s) /\ InCompanyClass(s[v]) /\ v - u >= least THEN RunEnd(v)
            ELSE IF v - u >= least + 1 THEN RunEnd(v - 1)
            ELSE 0
    IN  From(SkipSpaces(s, u))

\* The end of \s+(?:at|@|\||-)\s+([A-Za-z0-9\s&.]+) started at position t,
\* 0 when it does not match there.
TailAtEnd(s, t) ==
    LET AfterSeparator(sep) ==
            IF sep = t THEN 0
            ELSE IF WordAt(s, sep, <<"a","t">>) THEN CompanyEnd(s, sep + 2, 1)
            ELSE IF sep <= Len(s) /\ s[sep] \in {"@", "|", "-"} THEN CompanyEnd(s, sep + 1, 1)
            ELSE 0
    IN  AfterSeparator(SkipSpaces(s, t))

\* The end of \s*[\n,]\s*([A-Za-z0-9\s&.]+) started at position t, 0 when it
\* does not match there: the first \s* gives white space back until a line
\* feed or a comma follows it and the rest matches.
TailBreakEnd(s, t) ==
    LET Ends(stop) ==
            {c \in t..stop : /\ c <= Len(s)
                             /\ s[c] \in {"\n", ","}
                             /\ CompanyEnd(s, c + 1, 0) # 0}
        Last(breaks) == IF breaks = {} THEN 0 ELSE CompanyEnd(s, Greatest(breaks) + 1, 0)
    IN  Last(Ends(SkipSpaces(s, t)))

\* The end of the tail of role pattern n at position t.
TailEnd(s, t, n) == IF n = 1 THEN TailAtEnd(s, t) ELSE TailBreakEnd(s, t)

\* The places <<q, end>> where a suffix word stands at q and the tail of
\* pattern n follows it and ends at end.
Anchors(s, n) ==
    {a \in UNION {{<<q, TailEnd(s, q + Len(titleSuffixes[w]), n)>> :
                      q \in {x \in 1..Len(s) : WordAt(s, x, titleSuffixes[w])}} :
                   w \in 1..Len(titleSuffixes)} : a[2] # 0}

\* The starts p >= from of the first group that reach the suffix at q:
\* a letter followed by one or more characters of [a-zA-Z\s] up to q.
StartsFor(s, q, from) ==
    {p \in from..(q - 2) : /\ IsLetter(s[p])
                           /\ \A k \in (p + 1)..(q - 1) : InTitleClass(s[k])}

\* The suffix word that stands at q (no suffix word begins another one).
SuffixLenAt(s, q) ==
    Len(titleSuffixes[CHOOSE w \in 1..Len(titleSuffixes) : WordAt(s, q, titleSuffixes[w])])

RECURSIVE PatternTitles(_, _, _)
\* The first groups, trimmed, of the successive matches of role pattern n
\* from position from on (pattern.exec in a loop, flags g and i): each match
\* is the leftmost one, its first group as long as it can be.
PatternTitles(s, from, n) ==
    LET Match(p, reach) ==
            \* the anchor the greedy first group started at p stops at
            CHOOSE a \in reach : \A b \in reach : b[1] <= a[1]
        Title(p, a) == trim(SubSeq(s, p, a[1] + SuffixLenAt(s, a[1]) - 1))
        From(p, anchors) ==
            <<Title(p, Match(p, {a \in anchors : p \in StartsFor(s, a[1], from)}))>>
               \o PatternTitles(s,
                     Match(p, {a \in anchors : p \in StartsFor(s, a[1], from)})[2] + 1, n)
        Leftmost(anchors) ==
            IF \A a \in anchors : StartsFor(s, a[1], from) = {} THEN <<>>
            ELSE From(Least(UNION {StartsFor(s, a[1], from) : a \in anchors}), anchors)
    IN  Leftmost(Anchors(s, n))

\* The roles of the text: those of the line scan, then those of the two
\* role patterns with years null, a title found before left out.
extractRoles(text, currentYear) ==
    LET Scan(lines) ==
            Flatten([l \in 1..Len(lines) |-> RolesOfLine(lines[l], currentYear)])
        Matched(titles) == [k \in 1..Len(titles) |-> Role(titles[k], <<>>)]
    IN  PushUnlessFound(<<>>,
            Scan(split(text, "\n"))
               \o Matched(PatternTitles(text, 1, 1))
               \o Matched(PatternTitles(text, 1, 2)))

(* extractSkills, determineSeniorityLevel, extractInformation, parse *)

\* new RegExp(`\\b${skill}\\b`, 'i').test(normalizedText): the skill stands
\* somewhere between two word boundaries.
SkillFound(normalizedText, skill) ==
    LET Word(i) == i >= 1 /\ i <= Len(normalizedText) /\ IsWordChar(normalizedText[i])
        Boundary(i) == Word(i - 1) # Word(i)
    IN  \E i \in 1..Len(normalizedText) :
            /\ WordAt(normalizedText, i, skill)
            /\ Boundary(i)
            /\ Boundary(i + Len(skill))

RECURSIVE Unique(_)
\* [...new Set(array)]: the first occurrence of every element, in order.
Unique(seq) ==
    IF Len(seq) = 0 THEN <<>>
    ELSE LET Kept(front) == IF \E k \in 1..Len(front) : front[k] = seq[Len(seq)]
                            THEN front ELSE Append(front, seq[Len(seq)])
         IN  Kept(Unique(SubSeq(seq, 1, Len(seq) - 1)))

\* foundSkills.technical
extractSkills(normalizedText) ==
    LET Capitalized(found) == [k \in 1..Len(found) |-> capitalizeTitle(technicalSkills[found[k]])]
    IN  Unique(Capitalized(SelectSeq([k \in 1..Len(technicalSkills) |-> k],
                               LAMBDA k : SkillFound(normalizedText, technicalSkills[k]))))

\* determineSeniorityLevel with the last tier that has an indicator in the
\* text in place of the first.
determineSeniorityLevel_LastTier(normalizedText, experienceByRole) ==
    LET ByYears(totalYears) ==
            IF totalYears <= 2 THEN "entry"
            ELSE IF totalYears <= 5 THEN "mid"
            ELSE IF totalYears <= 10 THEN "senior"
            ELSE "manager"
        Last(tiers) ==
            IF tiers = {} THEN ByYears(calculateTotalExperience(experienceByRole))
            ELSE seniorityIndicators[Greatest(tiers)].level
    IN  Last({t \in 1..Len(seniorityIndicators) :
                 SomeIncluded(normalizedText, seniorityIndicators[t].indicators)})

\* The first tier, in the order of the keys, with an indicator in the text;
\* without one, the tier of the total years.
determineSeniorityLevel(normalizedText, experienceByRole) ==
    LET ByYears(totalYears) ==
            IF totalYears <= 2 THEN "entry"
            ELSE IF totalYears <= 5 THEN "mid"
            ELSE IF totalYears <= 10 THEN "senior"
            ELSE "manager"
        First(tiers) ==
            IF tiers = {} THEN ByYears(calculateTotalExperience(experienceByRole))
            ELSE seniorityIndicators[Least(tiers)].level
    IN  First({t \in 1..Len(seniorityIndicators) :
                  SomeIncluded(normalizedText, seniorityIndicators[t].indicators)})

\* The profile of a text; education, keywords and rawText, which no scoring
\* reads, are left out (keywords is kept empty).
extractInformation(text, currentYear) ==
    LET Levelled(profile) ==
            [profile EXCEPT !.seniorityLevel =
                determineSeniorityLevel(toLowerCase(text), profile.experienceByRole)]
    IN  Levelled(Profile(extractRoles(text, currentYear), extractSkills(toLowerCase(text))))

(* Inputs of the parser runs: files of every extension, their texts made of *)
(* a few lines of a resume                                                  *)

LinePool ==
    << <<"S","e","n","i","o","r"," ","S","o","f","t","w","a","r","e"," ","E","n","g","i","n",
         "e","e","r"," ","2","0","1","5"," ","-"," ","P","r","e","s","e","n","t">>,
       <<"S","o","f","t","w","a","r","e"," ","E","n","g","i","n","e","e","r"," ","2","0","2",
         "0"," ","-"," ","2","0","1","5">>,
       <<"S","k","i","l","l","s",":"," ","P","y","t","h","o","n",","," ","R","e","a","c","t">>,
       <<"M","a","r","k","e","t","i","n","g"," ","I","n","t","e","r","n">>,
       <<"P","r","o","d","u","c","t"," ","M","a","n","a","g","e","r"," ","a","t"," ","A","c",
         "m","e"," ","2","0","1","8"," ",EnDash," ","C","u","r","r","e","n","t">>,
       <<"U","X"," ","D","e","s","i","g","n","e","r",","," ","3","+"," ","y","e","a","r","s">> >>

RECURSIVE join(_, _)
\* Array.prototype.join
join(parts, sep) ==
    IF Len(parts) = 0 THEN <<>>
    ELSE IF Len(parts) = 1 THEN parts[1]
    ELSE parts[1] \o <<sep>> \o join(Tail(parts), sep)

\* The texts of at most MaxLines lines of the pool, none of them twice.
TextPool ==
    {join([k \in 1..Len(picked) |-> LinePool[picked[k]]], "\n") :
        picked \in DistinctSeqsUpTo(1..Len(LinePool), MaxLines)}

\* path.extname(filePath) of the files.
ExtPool == {<<".","t","x","t">>, <<".","P","D","F">>, <<".","p","n","g">>, <<>>}

\* The calendar years of a call.
YearPool == {2025, 2026}

\* A file: its extension, whether the decoder of its format reads it, and
\* the text the decoder gives.
FilePool ==
    {[ext |-> ext, readable |-> TRUE, text |-> text] : ext \in ExtPool, text \in TextPool}
        \cup {[ext |-> ext, readable |-> FALSE, text |-> <<>>] : ext \in ExtPool}

InitParse ==
    /\ file \in FilePool
    /\ resumeData = Profile(<<>>, <<>>)
    /\ jobs = <<>>
    /\ scores = [total |-> 0]
    /\ locals = <<>>
    /\ result = <<>>
    /\ pc = "start"
    /\ InitNoRequest /\ InitNoSearch

\* The extensions parse has a decoder for.
IsSupported(ext) ==
    ext \in {<<".","p","d","f">>, <<".","d","o","c","x">>, <<".","t","x","t">>}

\* A call of parse(filePath): the error of an extension without a decoder or
\* of a decoder that fails is thrown again; otherwise the profile of the
\* decoded text is returned.  The calendar year is read when a role line is
\* parsed.
Parse ==
    /\ pc = "start"
    /\ \E currentYear \in YearPool :
          /\ locals' = [currentYear |-> currentYear]
          /\ IF IsSupported(toLowerCase(file.ext)) /\ file.readable
             THEN /\ result' = extractInformation(file.text, currentYear)
                  /\ pc' = "returned"
             ELSE /\ result' = "Error"
                  /\ pc' = "threw"
    /\ UNCHANGED <<resumeData, jobs, scores, parserVars, serverVars, searchVars>>

NextParse == Parse

SpecParse == InitParse /\ [][NextParse]_vars
---------------------------------------------------------------------------
(* The parser: what holds of the profile of a text *)

\* The roles of the profile that carry negative years.
NegativeRoles(profile) ==
    {k \in 1..Len(profile.roles) :
        Len(profile.roles[k].years) = 1 /\ profile.roles[k].years[1] < 0}

\* C14: for any text the profile's totalYearsExperience lies in 0..30 and
\* the years of every category of the rollup are at least 0, a role line
\* whose end year is earlier than its start year included.
C14_YearsWithinRange ==
    pc = "returned" =>
        /\ result.totalYearsExperience \in 0..30
        /\ \A type \in DOMAIN result.experienceByRole :
              result.experienceByRole[type].years >= 0

\* C14, what holds of the profile: totalYearsExperience is at most 30, and
\* it and the years of every category are at least 0 when no role carries
\* negative years.
C14_YearsWithinRangeUnlessNegativeRole ==
    pc = "returned" =>
        /\ result.totalYearsExperience <= 30
        /\ NegativeRoles(result) = {} =>
              /\ result.totalYearsExperience >= 0
              /\ \A type \in DOMAIN result.experienceByRole :
                    result.experienceByRole[type].years >= 0

\* A text with a role line whose end year is earlier than its start year
\* was parsed: the years of a category and the total are negative.
C14_Witness ==
    /\ pc = "returned"
    /\ NegativeRoles(result) # {}
    /\ result.totalYearsExperience < 0
    /\ \E type \in DOMAIN result.experienceByRole :
          result.experienceByRole[type].years < 0

\* The fields of a complete profile (education and rawText, which nothing
\* reads, are not modelled).
ProfileFields ==
    {"roles", "experienceByRole", "totalYearsExperience", "skills", "seniorityLevel",
     "primaryRole", "keywords"}

\* C15: profile extraction raises an error exactly when the text is empty or
\* the format of the file is unsupported, and returns no profile then; for
\* every other input it returns a complete profile.
C15_ErrorIffEmptyOrUnsupported ==
    (pc \in {"returned", "threw"} /\ file.readable) =>
        /\ pc = "threw" <=> (file.text = <<>> \/ ~IsSupported(toLowerCase(file.ext)))
        /\ pc = "threw" => result = "Error"
        /\ pc = "returned" => DOMAIN result = ProfileFields

\* C15, what holds of the call: an error is raised exactly when the format
\* is unsupported or the decoder of the format fails, and no profile is
\* returned then; every decoded text, the empty one included, gives a
\* complete profile.
C15_ErrorIffUnsupportedOrUnreadable ==
    pc \in {"returned", "threw"} =>
        /\ pc = "threw" <=> (~file.readable \/ ~IsSupported(toLowerCase(file.ext)))
        /\ pc = "threw" => result = "Error"
        /\ pc = "returned" => DOMAIN result = ProfileFields

\* The empty text of a supported file was parsed: a profile without roles
\* was returned.
C15_Witness ==
    /\ pc = "returned"
    /\ file.text = <<>>
    /\ IsSupported(toLowerCase(file.ext))
    /\ result.roles = <<>>
    /\ result.primaryRole = [type |-> "General", title |-> t_Professional]

\* The line of the example.
SeniorEngineerLine ==
    <<"S","e","n","i","o","r"," ","S","o","f","t","w","a","r","e"," ","E","n","g","i","n","e",
      "e","r"," ","2","0","1","5"," ","-"," ","P","r","e","s","e","n","t">>

\* The text has the line.
HasLine(text, line) ==
    \E k \in 1..Len(split(text, "\n")) : trim(split(text, "\n")[k]) = line

\* The text has the word: the letters, with no letter or digit next to them.
HasWord(text, word) ==
    \E i \in 1..Len(text) :
        /\ i + Len(word) - 1 <= Len(text)
        /\ SubSeq(text, i, i + Len(word) - 1) = word
        /\ i > 1 => ~IsWordChar(text[i - 1])
        /\ i + Len(word) <= Len(text) => ~IsWordChar(text[i + Len(word)])

\* The text of the example: it has the line and the word Python.
IsExampleText(text) ==
    HasLine(text, SeniorEngineerLine) /\ HasWord(text, <<"P","y","t","h","o","n">>)

\* The profile of the example: senior, a role Software Engineer of
\* currentYear - 2015 years, the skill Python.
IsExampleProfile(profile, currentYear) ==
    /\ profile.seniorityLevel = "senior"
    /\ \E k \in 1..Len(profile.roles) :
          profile.roles[k] =
              Role(<<"S","o","f","t","w","a","r","e"," ","E","n","g","i","n","e","e","r">>,
                   <<currentYear - 2015>>)
    /\ \E k \in 1..Len(profile.skills.technical) :
          profile.skills.technical[k] = <<"P","y","t","h","o","n">>

\* The text has no indicator of the tiers entry and mid, which are looked
\* for before those of the tier senior.
NoEarlierTier(text) ==
    /\ ~SomeIncluded(toLowerCase(text), seniorityIndicators[1].indicators)
    /\ ~SomeIncluded(toLowerCase(text), seniorityIndicators[2].indicators)

\* The first line of the text that names a software engineer is the line.
IsFirstEngineerLine(text, line) ==
    LET First(lines, naming) == naming # {} /\ trim(lines[Least(naming)]) = line
        Naming(lines) ==
            First(lines, {k \in 1..Len(lines) :
                includes(toLowerCase(lines[k]),
                    <<"s","o","f","t","w","a","r","e"," ","e","n","g","i","n","e","e","r">>)})
    IN  Naming(split(text, "\n"))

\* C16 as stated: any text with the line "Senior Software Engineer 2015 -
\* Present" and the word "Python" gives seniorityLevel senior, a role
\* Software Engineer of currentYear - 2015 years and the skill Python.
C16_ExampleOfAnyText ==
    (pc = "returned" /\ IsExampleText(file.text)) =>
        IsExampleProfile(result, locals.currentYear)

\* C16: a text with the line "Senior Software Engineer 2015 - Present" and
\* the word "Python", with no indicator of the tiers entry and mid and with
\* no earlier line that names a software engineer, gives seniorityLevel
\* senior, a role Software Engineer of currentYear - 2015 years and the
\* skill Python; whatever else the text holds, it gives the skill Python.
C16_ExampleOfSeniorText ==
    (pc = "returned" /\ IsExampleText(file.text)) =>
        /\ \E k \in 1..Len(result.skills.technical) :
              result.skills.technical[k] = <<"P","y","t","h","o","n">>
        /\ (NoEarlierTier(file.text) /\ IsFirstEngineerLine(file.text, SeniorEngineerLine)) =>
              IsExampleProfile(result, locals.currentYear)

\* The text of the example, with one more line that changes nothing, was
\* parsed.
C16_Witness ==
    /\ pc = "returned"
    /\ IsExampleText(file.text)
    /\ NoEarlierTier(file.text)
    /\ IsFirstEngineerLine(file.text, SeniorEngineerLine)
    /\ Len(split(file.text, "\n")) = MaxLines
    /\ IsExampleProfile(result, locals.currentYear)
---------------------------------------------------------------------------
(* The server: POST /analyze *)

\* A description that is an object and no string.
NotAString == <<"[object Object]">>

\* The files the upload filter lets through (it goes by the MIME type the
\* client declares, not by the name).
UploadPool ==
    {[ext |-> <<".","t","x","t">>, readable |-> TRUE,
      text |-> LinePool[1] \o <<"\n">> \o LinePool[3]],
     [ext |-> <<".","t","x","t">>, readable |-> TRUE, text |-> <<>>],
     [ext |-> <<".","d","o","c","x">>, readable |-> TRUE, text |-> LinePool[5]],
     [ext |-> <<".","P","D","F">>, readable |-> FALSE, text |-> <<>>],
     [ext |-> <<".","p","n","g">>, readable |-> TRUE, text |-> LinePool[6]]}

\* What the promise of searchJobs settles with: a rejection, or postings.
SearchOutcomes ==
    {[status |-> "rejected", value |-> <<>>],
     [status |-> "fulfilled",
      value |-> <<Job(t_SoftwareEngineer, c_Adobe, <<"p","y","t","h","o","n">>)>>],
     [status |-> "fulfilled",
      value |-> <<Job(t_UXDesigner, c_Adobe, <<>>),
                  Job(t_SoftwareEngineer, c_Adobe, <<"r","e","a","c","t">>)>>],
     [status |-> "fulfilled",
      value |-> <<Job(t_SoftwareEngineer, c_Adobe, NotAString)>>]}

\* The request as multer hands it to the handler: without a file, or with
\* the file stored in the uploads directory.
InitAnalyze ==
    /\ \/ /\ req = [hasFile |-> FALSE, onDisk |-> FALSE, unlinks |-> 0, rendering |-> <<>>,
                    responses |-> <<>>, error |-> ""]
          /\ InitNoFile
       \/ /\ req = [hasFile |-> TRUE, onDisk |-> TRUE, unlinks |-> 0, rendering |-> <<>>,
                    responses |-> <<>>, error |-> ""]
          /\ file \in UploadPool
    /\ resumeData = Profile(<<>>, <<>>)
    /\ jobs = <<>>
    /\ scores = [total |-> 0]
    /\ locals = <<>>
    /\ result = <<>>
    /\ pc = "start"
    /\ InitNoSearch

\* UnlinksAfterCatch of a catch block that leaves the file where it is.
UnlinksAfterCatch_None(r) == r.unlinks

\* The pending unlinks after the catch block: one more if req.file?.path.
UnlinksAfterCatch(r) == IF r.hasFile THEN r.unlinks + 1 ELSE r.unlinks

\* The pending unlinks after the clean-up that follows the matching.
UnlinksAfterMatch(r) == r.unlinks + 1

\* The catch block: the file is unlinked and the error page is sent with
\* status 500.
Caught(r, step) ==
    [r EXCEPT !.unlinks = UnlinksAfterCatch(r),
              !.rendering = Append(@, [status |-> 500, view |-> "error"]),
              !.error = step]

\* (job.description || '').toLowerCase() of the matcher raises a TypeError.
MatchRaises(postings) == \E i \in 1..Len(postings) : postings[i].description = NotAString

\* The handler is entered: without a file the error page is sent with status
\* 400 and the handler returns; with a file, parse is called and awaited.
Analyze ==
    /\ pc = "start"
    /\ IF ~req.hasFile
       THEN /\ req' = [req EXCEPT !.rendering = Append(@, [status |-> 400, view |-> "error"])]
            /\ pc' = "done"
       ELSE /\ req' = req
            /\ pc' = "parsing"
    /\ UNCHANGED <<resumeData, jobs, scores, locals, result, parserVars, searchVars>>

\* The promise of parse settles: a rejection goes to the catch block, with a
\* profile searchJobs is called and awaited.
ParseSettled ==
    /\ pc = "parsing"
    /\ \E currentYear \in YearPool :
          /\ locals' = [currentYear |-> currentYear]
          /\ IF IsSupported(toLowerCase(file.ext)) /\ file.readable
             THEN /\ resumeData' = extractInformation(file.text, currentYear)
                  /\ req' = req
                  /\ pc' = "searching"
             ELSE /\ resumeData' = resumeData
                  /\ req' = Caught(req, "parse")
                  /\ pc' = "done"
    /\ UNCHANGED <<jobs, scores, result, parserVars, searchVars>>

\* The promise of searchJobs settles: a rejection goes to the catch block;
\* with postings matchJobs is called, and if it returns the file is unlinked
\* and the results page rendered, if it raises the catch block runs.
SearchSettled ==
    /\ pc = "searching"
    /\ \E outcome \in SearchOutcomes :
          IF outcome.status = "rejected"
          THEN /\ req' = Caught(req, "search")
               /\ UNCHANGED <<jobs, result>>
          ELSE /\ jobs' = outcome.value
               /\ IF MatchRaises(outcome.value)
                  THEN /\ req' = Caught(req, "match")
                       /\ result' = result
                  ELSE /\ result' = matchJobs(resumeData, outcome.value)
                       /\ req' = [req EXCEPT
                                     !.unlinks = UnlinksAfterMatch(req),
                                     !.rendering = Append(@, [status |-> 200, view |-> "results"])]
    /\ pc' = "done"
    /\ UNCHANGED <<resumeData, scores, locals, parserVars, searchVars>>

\* fs.unlink completes: the file is gone (its callback only logs).
UnlinkDone ==
    /\ req.unlinks > 0
    /\ req' = [req EXCEPT !.unlinks = @ - 1, !.onDisk = FALSE]
    /\ UNCHANGED <<resumeData, jobs, scores, locals, result, pc, parserVars, searchVars>>

\* A view is rendered and sent.
RenderDone ==
    /\ req.rendering # <<>>
    /\ req' = [req EXCEPT !.rendering = Tail(@),
                          !.responses = Append(@, req.rendering[1])]
    /\ UNCHANGED <<resumeData, jobs, scores, locals, result, pc, parserVars, searchVars>>

\* The results view fails to render: the error goes to the general error
\* handler, which sends the error page with status 500.
RenderFailed ==
    /\ req.rendering # <<>>
    /\ req.rendering[1].view = "results"
    /\ req' = [req EXCEPT !.rendering = <<[status |-> 500, view |-> "error"]>>,
                          !.error = "render"]
    /\ UNCHANGED <<resumeData, jobs, scores, locals, result, pc, parserVars, searchVars>>

NextAnalyze ==
    \/ Analyze
    \/ ParseSettled
    \/ SearchSettled
    \/ UnlinkDone
    \/ RenderDone
    \/ RenderFailed

SpecAnalyze == InitAnalyze /\ [][NextAnalyze]_vars

\* The promise the handler awaits at a position settles: the handler leaves
\* the position.
AwaitSettles(at) == pc = at /\ pc' \in {"searching", "done"} \ {at}

\* Promises settle and the callbacks of the file system and of the view
\* engine are run: a step that stays possible is taken.  A view that failed
\* once is not asked to fail for ever.
FairSpecAnalyze ==
    /\ SpecAnalyze
    /\ WF_vars(Analyze)
    /\ WF_pc(AwaitSettles("parsing"))
    /\ WF_pc(AwaitSettles("searching"))
    /\ WF_vars(UnlinkDone)
    /\ WF_vars(RenderDone)

\* The response the request is owed: 400 without a file, 500 after an error,
\* the results page otherwise.
OwedResponse ==
    IF ~req.hasFile THEN [status |-> 400, view |-> "error"]
    ELSE IF req.error # "" THEN [status |-> 500, view |-> "error"]
    ELSE [status |-> 200, view |-> "results"]

---------------------------------------------------------------------------
(* JobSearchService: the queries, the sources, the mock postings *)

\* Array.prototype.slice(0, end)
slice(array, end) == SubSeq(array, 1, Min(end, Len(array)))

getSeniorityPrefix(level) ==
    IF level = "entry" THEN <<"J","u","n","i","o","r">>
    ELSE IF level = "senior" THEN <<"S","e","n","i","o","r">>
    ELSE IF level = "manager" THEN <<"L","e","a","d">>
    ELSE <<>>

\* The role variations of buildSearchQueries, by role type.
roleKeywords ==
    << [type |-> "Engineering",
        keywords |-> << <<"S","o","f","t","w","a","r","e"," ","E","n","g","i","n","e","e","r">>,
                        <<"D","e","v","e","l","o","p","e","r">>,
                        <<"F","u","l","l"," ","S","t","a","c","k"," ","E","n","g","i","n","e","e","r">> >>],
       [type |-> "Product",
        keywords |-> << <<"P","r","o","d","u","c","t"," ","M","a","n","a","g","e","r">>,
                        <<"P","r","o","g","r","a","m"," ","M","a","n","a","g","e","r">>,
                        <<"P","r","o","d","u","c","t"," ","O","w","n","e","r">> >>],
       [type |-> "Design",
        keywords |-> << <<"P","r","o","d","u","c","t"," ","D","e","s","i","g","n","e","r">>,
                        <<"U","X"," ","D","e","s","i","g","n","e","r">>,
                        <<"U","I"," ","D","e","s","i","g","n","e","r">> >>],
       [type |-> "Data",
        keywords |-> << <<"D","a","t","a"," ","S","c","i","e","n","t","i","s","t">>,
                        <<"D","a","t","a"," ","A","n","a","l","y","s","t">>,
                        <<"D","a","t","a"," ","E","n","g","i","n","e","e","r">>,
                        <<"B","u","s","i","n","e","s","s"," ","A","n","a","l","y","s","t">>,
                        <<"A","n","a","l","y","s","t">> >>],
       [type |-> "Management",
        keywords |-> << <<"E","n","g","i","n","e","e","r","i","n","g"," ","M","a","n","a","g","e","r">>,
                        <<"T","e","c","h","n","i","c","a","l"," ","L","e","a","d">>,
                        <<"T","e","a","m"," ","L","e","a","d">> >>] >>

\* `${seniorityPrefix} ${word}`.trim()
Prefixed(seniorityPrefix, word) == trim(seniorityPrefix \o <<" ">> \o word)

\* The first five distinct queries: the primary title, alone and with the
\* prefix of the seniority; the prefixed role variations of the primary type;
\* the analyst variations; the first two skills with the primary title.
buildSearchQueries(profile) ==
    LET KeywordsOf(known) ==
            IF known = {} THEN <<>> ELSE roleKeywords[Least(known)].keywords
        Queries(seniorityPrefix, primaryTitle, keywords, topSkills) ==
            (IF primaryTitle # <<>>
             THEN <<primaryTitle, Prefixed(seniorityPrefix, primaryTitle)>> ELSE <<>>)
            \o [k \in 1..Len(keywords) |-> Prefixed(seniorityPrefix, keywords[k])]
            \o (IF includes(toLowerCase(primaryTitle), <<"a","n","a","l","y","s","t">>)
                THEN <<<<"A","n","a","l","y","s","t">>,
                       <<"B","u","s","i","n","e","s","s"," ","A","n","a","l","y","s","t">>,
                       <<"D","a","t","a"," ","A","n","a","l","y","s","t">>,
                       Prefixed(seniorityPrefix, <<"A","n","a","l","y","s","t">>)>>
                ELSE <<>>)
            \o (IF primaryTitle # <<>>
                THEN [k \in 1..Len(topSkills) |-> topSkills[k] \o <<" ">> \o primaryTitle]
                ELSE <<>>)
    IN  slice(Unique(Queries(getSeniorityPrefix(profile.seniorityLevel),
                             profile.primaryRole.title,
                             KeywordsOf({k \in 1..Len(roleKeywords) :
                                            roleKeywords[k].type = profile.primaryRole.type}),
                             slice(profile.skills.technical, 2))),
              5)

\* A field of an object, left out when its value is undefined.
Field(f, defined, value) == IF defined THEN f :> value ELSE [x \in {} |-> x]

\* The posting a source makes of an item of a response.  The item holds the
\* title and the company under the names of the source; LinkedIn puts
\* 'Job Title' and 'Company' for what is missing, Adzuna 'Company', JSearch
\* nothing.  Of the posting, the title, the company and the source are kept.
FormatJob(name, item) ==
    Field("title", Has(item, "title") \/ name = "LinkedIn",
          IF Has(item, "title") THEN item.title ELSE <<"J","o","b"," ","T","i","t","l","e">>)
    @@ Field("company", Has(item, "company") \/ name \in {"LinkedIn", "Adzuna"},
             IF Has(item, "company") THEN item.company ELSE <<"C","o","m","p","a","n","y">>)
    @@ [source |-> name]

\* What a query of a source comes back with: an exception of the request, a
\* response without the list of items, or a list of items.
ResponsePool ==
    {[threw |-> TRUE, items |-> <<>>],
     [threw |-> FALSE, items |-> <<>>],
     [threw |-> FALSE, items |-> <<[title |-> <<"S","o","f","t","w","a","r","e"," ","E","n","g","i","n","e","e","r">>, company |-> <<"G","o","o","g","l","e">>]>>],
     [threw |-> FALSE,
      items |-> <<[title |-> <<"s","o","f","t","w","a","r","e"," ","e","n","g","i","n","e","e","r">>, company |-> <<"G","O","O","G","L","E">>],
                  [title |-> <<"D","a","t","a"," ","A","n","a","l","y","s","t">>, company |-> <<"M","e","t","a">>]>>],
     [threw |-> FALSE, items |-> <<[company |-> <<"M","e","t","a">>]>>]}

\* The job templates of getMockJobs, by role type.
jobTemplates ==
    <<
    [type |-> "Engineering",
     templates |-> <<
            [title |-> <<"S","o","f","t","w","a","r","e"," ","E","n","g","i","n","e","e","r">>,
             companies |-> << <<"G","o","o","g","l","e">>,
                              <<"M","e","t","a">>,
                              <<"A","m","a","z","o","n">>,
                              <<"M","i","c","r","o","s","o","f","t">>,
                              <<"A","p","p","l","e">>,
                              <<"N","e","t","f","l","i","x">>,
                              <<"S","t","r","i","p","e">>,
                              <<"A","i","r","b","n","b">> >>],
            [title |-> <<"S","e","n","i","o","r"," ","S","o","f","t","w","a","r","e"," ","E",
                         "n","g","i","n","e","e","r">>,
             companies |-> << <<"U","b","e","r">>,
                              <<"L","y","f","t">>,
                              <<"D","o","o","r","D","a","s","h">>,
                              <<"I","n","s","t","a","c","a","r","t">>,
                              <<"C","o","i","n","b","a","s","e">>,
                              <<"R","o","b","i","n","h","o","o","d">> >>],
            [title |-> <<"F","u","l","l"," ","S","t","a","c","k"," ","E","n","g","i","n","e",
                         "e","r">>,
             companies |-> << <<"S","h","o","p","i","f","y">>,
                              <<"S","q","u","a","r","e">>,
                              <<"T","w","i","l","i","o">>,
                              <<"D","a","t","a","d","o","g">>,
                              <<"M","o","n","g","o","D","B">>,
                              <<"E","l","a","s","t","i","c">> >>],
            [title |-> <<"F","r","o","n","t","e","n","d"," ","E","n","g","i","n","e","e","r">>,
             companies |-> << <<"F","i","g","m","a">>,
                              <<"N","o","t","i","o","n">>,
                              <<"C","a","n","v","a">>,
                              <<"W","e","b","f","l","o","w">>,
                              <<"V","e","r","c","e","l">>,
                              <<"L","i","n","e","a","r">> >>],
            [title |-> <<"B","a","c","k","e","n","d"," ","E","n","g","i","n","e","e","r">>,
             companies |-> << <<"P","l","a","i","d">>,
                              <<"R","a","m","p">>,
                              <<"B","r","e","x">>,
                              <<"S","c","a","l","e"," ","A","I">>,
                              <<"A","n","t","h","r","o","p","i","c">>,
                              <<"O","p","e","n","A","I">> >>],
            [title |-> <<"J","u","n","i","o","r"," ","S","o","f","t","w","a","r","e"," ","E",
                         "n","g","i","n","e","e","r">>,
             companies |-> << <<"A","t","l","a","s","s","i","a","n">>,
                              <<"A","s","a","n","a">>,
                              <<"M","o","n","d","a","y",".","c","o","m">>,
                              <<"A","i","r","t","a","b","l","e">>,
                              <<"R","e","t","o","o","l">> >>],
            [title |-> <<"S","t","a","f","f"," ","E","n","g","i","n","e","e","r">>,
             companies |-> << <<"G","o","o","g","l","e">>,
                              <<"M","e","t","a">>,
                              <<"A","m","a","z","o","n">>,
                              <<"S","t","r","i","p","e">>,
                              <<"D","a","t","a","b","r","i","c","k","s">> >>] >>],
    [type |-> "Product",
     templates |-> <<
            [title |-> <<"P","r","o","d","u","c","t"," ","M","a","n","a","g","e","r">>,
             companies |-> << <<"G","o","o","g","l","e">>,
                              <<"M","e","t","a">>,
                              <<"A","m","a","z","o","n">>,
                              <<"M","i","c","r","o","s","o","f","t">>,
                              <<"S","a","l","e","s","f","o","r","c","e">>,
                              <<"A","d","o","b","e">> >>],
            [title |-> <<"S","e","n","i","o","r"," ","P","r","o","d","u","c","t"," ","M","a",
                         "n","a","g","e","r">>,
             companies |-> << <<"U","b","e","r">>,
                              <<"A","i","r","b","n","b">>,
                              <<"D","o","o","r","D","a","s","h">>,
                              <<"I","n","s","t","a","c","a","r","t">>,
                              <<"C","o","i","n","b","a","s","e">> >>],
            [title |-> <<"A","s","s","o","c","i","a","t","e"," ","P","r","o","d","u","c","t",
                         " ","M","a","n","a","g","e","r">>,
             companies |-> << <<"G","o","o","g","l","e">>,
                              <<"M","e","t","a">>,
                              <<"M","i","c","r","o","s","o","f","t">>,
                              <<"L","i","n","k","e","d","I","n">>,
                              <<"T","w","i","t","t","e","r">> >>],
            [title |-> <<"T","e","c","h","n","i","c","a","l"," ","P","r","o","g","r","a","m",
                         " ","M","a","n","a","g","e","r">>,
             companies |-> << <<"A","m","a","z","o","n">>,
                              <<"G","o","o","g","l","e">>,
                              <<"A","p","p","l","e">>,
                              <<"M","e","t","a">>,
                              <<"N","e","t","f","l","i","x">> >>],
            [title |-> <<"P","r","o","d","u","c","t"," ","O","w","n","e","r">>,
             companies |-> << <<"S","p","o","t","i","f","y">>,
                              <<"S","l","a","c","k">>,
                              <<"Z","o","o","m">>,
                              <<"D","o","c","u","S","i","g","n">>,
                              <<"S","e","r","v","i","c","e","N","o","w">> >>],
            [title |-> <<"G","r","o","u","p"," ","P","r","o","d","u","c","t"," ","M","a","n",
                         "a","g","e","r">>,
             companies |-> << <<"S","t","r","i","p","e">>,
                              <<"S","q","u","a","r","e">>,
                              <<"P","l","a","i","d">>,
                              <<"B","r","e","x">>,
                              <<"R","a","m","p">> >>] >>],
    [type |-> "Design",
     templates |-> <<
            [title |-> <<"P","r","o","d","u","c","t"," ","D","e","s","i","g","n","e","r">>,
             companies |-> << <<"A","p","p","l","e">>,
                              <<"G","o","o","g","l","e">>,
                              <<"A","i","r","b","n","b">>,
                              <<"F","i","g","m","a">>,
                              <<"N","o","t","i","o","n">>,
                              <<"L","i","n","e","a","r">> >>],
            [title |-> <<"S","e","n","i","o","r"," ","P","r","o","d","u","c","t"," ","D","e",
                         "s","i","g","n","e","r">>,
             companies |-> << <<"M","e","t","a">>,
                              <<"S","t","r","i","p","e">>,
                              <<"S","q","u","a","r","e">>,
                              <<"C","o","i","n","b","a","s","e">>,
                              <<"R","o","b","i","n","h","o","o","d">> >>],
            [title |-> <<"U","X"," ","D","e","s","i","g","n","e","r">>,
             companies |-> << <<"M","i","c","r","o","s","o","f","t">>,
                              <<"A","m","a","z","o","n">>,
                              <<"S","a","l","e","s","f","o","r","c","e">>,
                              <<"A","d","o","b","e">>,
                              <<"I","n","t","u","i","t">> >>],
            [title |-> <<"U","I"," ","D","e","s","i","g","n","e","r">>,
             companies |-> << <<"C","a","n","v","a">>,
                              <<"W","e","b","f","l","o","w">>,
                              <<"F","r","a","m","e","r">>,
                              <<"I","n","V","i","s","i","o","n">>,
                              <<"S","k","e","t","c","h">> >>],
            [title |-> <<"D","e","s","i","g","n"," ","L","e","a","d">>,
             companies |-> << <<"U","b","e","r">>,
                              <<"L","y","f","t">>,
                              <<"D","o","o","r","D","a","s","h">>,
                              <<"I","n","s","t","a","c","a","r","t">>,
                              <<"P","i","n","t","e","r","e","s","t">> >>],
            [title |-> <<"J","u","n","i","o","r"," ","P","r","o","d","u","c","t"," ","D","e",
                         "s","i","g","n","e","r">>,
             companies |-> << <<"S","p","o","t","i","f","y">>,
                              <<"S","l","a","c","k">>,
                              <<"D","r","o","p","b","o","x">>,
                              <<"A","s","a","n","a">>,
                              <<"N","o","t","i","o","n">> >>] >>],
    [type |-> "Data",
     templates |-> <<
            [title |-> <<"D","a","t","a"," ","S","c","i","e","n","t","i","s","t">>,
             companies |-> << <<"G","o","o","g","l","e">>,
                              <<"M","e","t","a">>,
                              <<"A","m","a","z","o","n">>,
                              <<"N","e","t","f","l","i","x">>,
                              <<"S","p","o","t","i","f","y">>,
                              <<"U","b","e","r">> >>],
            [title |-> <<"S","e","n","i","o","r"," ","D","a","t","a"," ","S","c","i","e","n",
                         "t","i","s","t">>,
             companies |-> << <<"A","i","r","b","n","b">>,
                              <<"L","y","f","t">>,
                              <<"D","o","o","r","D","a","s","h">>,
                              <<"I","n","s","t","a","c","a","r","t">>,
                              <<"C","o","i","n","b","a","s","e">> >>],
            [title |-> <<"D","a","t","a"," ","A","n","a","l","y","s","t">>,
             companies |-> << <<"M","i","c","r","o","s","o","f","t">>,
                              <<"S","a","l","e","s","f","o","r","c","e">>,
                              <<"A","d","o","b","e">>,
                              <<"I","n","t","u","i","t">>,
                              <<"S","e","r","v","i","c","e","N","o","w">> >>],
            [title |-> <<"M","a","c","h","i","n","e"," ","L","e","a","r","n","i","n","g"," ",
                         "E","n","g","i","n","e","e","r">>,
             companies |-> << <<"O","p","e","n","A","I">>,
                              <<"A","n","t","h","r","o","p","i","c">>,
                              <<"D","e","e","p","M","i","n","d">>,
                              <<"S","c","a","l","e"," ","A","I">>,
                              <<"D","a","t","a","b","r","i","c","k","s">> >>],
            [title |-> <<"D","a","t","a"," ","E","n","g","i","n","e","e","r">>,
             companies |-> << <<"S","n","o","w","f","l","a","k","e">>,
                              <<"D","a","t","a","b","r","i","c","k","s">>,
                              <<"d","b","t"," ","L","a","b","s">>,
                              <<"F","i","v","e","t","r","a","n">>,
                              <<"A","i","r","b","y","t","e">> >>],
            [title |-> <<"A","n","a","l","y","t","i","c","s"," ","E","n","g","i","n","e","e",
                         "r">>,
             companies |-> << <<"S","t","r","i","p","e">>,
                              <<"S","q","u","a","r","e">>,
                              <<"P","l","a","i","d">>,
                              <<"B","r","e","x">>,
                              <<"R","a","m","p">> >>] >>],
    [type |-> "Management",
     templates |-> <<
            [title |-> <<"E","n","g","i","n","e","e","r","i","n","g"," ","M","a","n","a","g",
                         "e","r">>,
             companies |-> << <<"G","o","o","g","l","e">>,
                              <<"M","e","t","a">>,
                              <<"A","m","a","z","o","n">>,
                              <<"M","i","c","r","o","s","o","f","t">>,
                              <<"A","p","p","l","e">> >>],
            [title |-> <<"S","e","n","i","o","r"," ","E","n","g","i","n","e","e","r","i","n",
                         "g"," ","M","a","n","a","g","e","r">>,
             companies |-> << <<"U","b","e","r">>,
                              <<"A","i","r","b","n","b">>,
                              <<"S","t","r","i","p","e">>,
                              <<"S","q","u","a","r","e">>,
                              <<"C","o","i","n","b","a","s","e">> >>],
            [title |-> <<"T","e","c","h","n","i","c","a","l"," ","L","e","a","d">>,
             companies |-> << <<"N","e","t","f","l","i","x">>,
                              <<"S","p","o","t","i","f","y">>,
                              <<"S","l","a","c","k">>,
                              <<"D","r","o","p","b","o","x">>,
                              <<"N","o","t","i","o","n">> >>],
            [title |-> <<"D","i","r","e","c","t","o","r"," ","o","f"," ","E","n","g","i","n",
                         "e","e","r","i","n","g">>,
             companies |-> << <<"D","o","o","r","D","a","s","h">>,
                              <<"I","n","s","t","a","c","a","r","t">>,
                              <<"L","y","f","t">>,
                              <<"R","o","b","i","n","h","o","o","d">>,
                              <<"P","l","a","i","d">> >>],
            [title |-> <<"V","P"," ","o","f"," ","E","n","g","i","n","e","e","r","i","n","g">>,
             companies |-> << <<"S","t","r","i","p","e">>,
                              <<"D","a","t","a","b","r","i","c","k","s">>,
                              <<"F","i","g","m","a">>,
                              <<"N","o","t","i","o","n">>,
                              <<"L","i","n","e","a","r">> >>] >>] >>

\* Math.floor(Math.random() * n) for a draw of num/den.
RandomIndex(random, n) == (random.num * n) \div random.den

\* The titles a posting of a template is picked from.
getTitleVariations(baseTitle, seniorityLevel) ==
    IF \/ includes(baseTitle, <<"S","e","n","i","o","r">>) \/ includes(baseTitle, <<"J","u","n","i","o","r">>)
       \/ includes(baseTitle, <<"L","e","a","d">>) \/ includes(baseTitle, <<"S","t","a","f","f">>)
    THEN <<baseTitle>>
    ELSE IF seniorityLevel = "entry"
    THEN <<baseTitle, <<"J","u","n","i","o","r"," ">> \o baseTitle, <<"A","s","s","o","c","i","a","t","e"," ">> \o baseTitle>>
    ELSE IF seniorityLevel = "mid"
    THEN <<baseTitle, baseTitle, baseTitle \o <<" ","I","I">>>>
    ELSE IF seniorityLevel = "senior"
    THEN <<baseTitle, <<"S","e","n","i","o","r"," ">> \o baseTitle, <<"S","t","a","f","f"," ">> \o baseTitle>>
    ELSE IF seniorityLevel = "manager"
    THEN <<baseTitle, <<"L","e","a","d"," ">> \o baseTitle, <<"P","r","i","n","c","i","p","a","l"," ">> \o baseTitle>>
    ELSE <<baseTitle>>

RECURSIVE shuffleFrom(_, _, _)
\* The loop of shuffleArray from index i (counted from 1) down.
shuffleFrom(shuffled, i, random) ==
    IF i < 2 THEN shuffled
    ELSE shuffleFrom([shuffled EXCEPT ![i] = shuffled[RandomIndex(random, i) + 1],
                                      ![RandomIndex(random, i) + 1] = shuffled[i]],
                     i - 1, random)

shuffleArray(array, random) == shuffleFrom(array, Len(array), random)

\* The mock postings: one of every template and company, its title picked
\* among the variations, shuffled, the first 30.  Every call of Math.random
\* gives the draw random.
getMockJobs(profile, random) ==
    LET Picked(titles) == titles[RandomIndex(random, Len(titles)) + 1]
        OfTemplate(template, seniorityLevel) ==
            [c \in 1..Len(template.companies) |->
                [title   |-> Picked(getTitleVariations(template.title, seniorityLevel)),
                 company |-> template.companies[c],
                 source  |-> "JobAgent"]]
        Generated(templates, seniorityLevel) ==
            Flatten([t \in 1..Len(templates) |-> OfTemplate(templates[t], seniorityLevel)])
        TemplatesOf(known) == jobTemplates[IF known = {} THEN 1 ELSE Least(known)].templates
    IN  slice(shuffleArray(
                  Generated(TemplatesOf({k \in 1..Len(jobTemplates) :
                                            jobTemplates[k].type = profile.primaryRole.type}),
                            profile.seniorityLevel),
                  random),
              30)

\* `${job.title.toLowerCase()}-${job.company.toLowerCase()}`
DedupeKey(job) == toLowerCase(job.title) \o <<"-">> \o toLowerCase(job.company)

\* The read of the title or of the company of a posting raises a TypeError.
DedupeRaises(postings) ==
    \E i \in 1..Len(postings) : ~Has(postings[i], "title") \/ ~Has(postings[i], "company")

\* deduplicateJobs that keeps every posting.
deduplicateJobs_KeepAll(postings) == postings

\* The postings whose key no earlier posting has.
deduplicateJobs(postings) ==
    LET First(kept) == [k \in 1..Len(kept) |-> postings[kept[k]]]
    IN  First(SelectSeq([i \in 1..Len(postings) |-> i],
                        LAMBDA i : \A j \in 1..(i - 1) :
                                      DedupeKey(postings[j]) # DedupeKey(postings[i])))

\* results.forEach of a merge that stops at the first source.
MergeSettled_FirstOnly(settled) ==
    IF Len(settled) > 0 /\ settled[1].status = "fulfilled" THEN settled[1].jobs ELSE <<>>

\* results.forEach of a merge in the order in which the promises settled.
MergeSettled_AsSettled(settled) ==
    Flatten([p \in 1..Len(settled) |->
                IF \E i \in 1..Len(settled) :
                      settled[i].settledAt = p /\ settled[i].status = "fulfilled"
                THEN settled[CHOOSE i \in 1..Len(settled) : settled[i].settledAt = p].jobs
                ELSE <<>>])

\* results.forEach: the postings of the fulfilled sources, in the order of
\* apiCalls.
MergeSettled(settled) ==
    Flatten([i \in 1..Len(settled) |->
                IF settled[i].status = "fulfilled" THEN settled[i].jobs ELSE <<>>])

(* Inputs of the search runs: every set of configured sources, profiles   *)
(* that ask one, two and three queries                                    *)

\* The sources in the order searchJobs asks them.
SourceNames == <<"LinkedIn", "JSearch", "Adzuna">>

\* The draws of Math.random.
RandomPool == {[num |-> 0, den |-> 1], [num |-> 1, den |-> 2], [num |-> 99, den |-> 100]}

\* A source before the call; settledAt is the place of its promise among the
\* settled ones, 0 while it is not settled.
Idle(name) ==
    [name |-> name, status |-> "idle", left |-> 0, jobs |-> <<>>, threw |-> FALSE,
     settledAt |-> 0]

\* The place of the promise that settles next.
NextPlace(sources) ==
    1 + Cardinality({i \in 1..Len(sources) : sources[i].status \in {"fulfilled", "rejected"}})

\* The sources whose keys are configured, for every set of keys.
ConfiguredPool ==
    {[k \in 1..Len(names) |-> Idle(names[k])] : names \in OrderedPicks(SourceNames, 3)}

\* The profile of an empty resume, of an unrecognised resume of middle
\* seniority, and of a designer at entry level.
SearchProfiles ==
    {[Profile(<<>>, <<>>) EXCEPT !.seniorityLevel = "entry"],
     Profile(<<>>, <<>>),
     [Profile(<<Role(t_UXDesigner, <<>>)>>, << <<"F","i","g","m","a">> >>)
         EXCEPT !.seniorityLevel = "entry"]}

\* The designer, whose queries are three to a source, is run against one
\* source at a time.
InitSearch ==
    /\ resumeData \in SearchProfiles
    /\ apis \in ConfiguredPool
    /\ Len(apis) <= 1 \/ Len(buildSearchQueries(resumeData)) < 3
    /\ jobs = <<>>
    /\ scores = [total |-> 0]
    /\ locals = <<>>
    /\ result = <<>>
    /\ pc = "start"
    /\ InitNoFile /\ InitNoRequest

\* The end of searchJobs once the sources are settled: the merged postings,
\* or the mock postings when there are none, without their duplicates.
Finish(settled, random) ==
    LET Unique_(allJobs) ==
            IF DedupeRaises(allJobs)
            THEN /\ result' = "TypeError"
                 /\ pc' = "threw"
            ELSE /\ result' = deduplicateJobs(allJobs)
                 /\ pc' = "returned"
        Fallback(allJobs) ==
            /\ locals' = [allJobs |-> allJobs]
            /\ Unique_(IF Len(allJobs) = 0 THEN getMockJobs(resumeData, random) ELSE allJobs)
    IN  Fallback(MergeSettled(settled))

\* searchJobs is called: the queries are built and every configured source
\* is started with the first three of them; without a source the call runs
\* to its end.
SearchJobs ==
    /\ pc = "start"
    /\ IF Len(apis) = 0
       THEN /\ \E random \in RandomPool : Finish(apis, random)
            /\ apis' = apis
       ELSE /\ apis' = [i \in 1..Len(apis) |->
                          [apis[i] EXCEPT
                              !.left = Len(slice(buildSearchQueries(resumeData), 3)),
                              !.status = IF Len(buildSearchQueries(resumeData)) = 0
                                         THEN "fulfilled" ELSE "pending",
                              !.settledAt = IF Len(buildSearchQueries(resumeData)) = 0
                                            THEN i ELSE 0]]
            /\ pc' = "awaiting"
            /\ UNCHANGED <<locals, result>>
    /\ UNCHANGED <<resumeData, jobs, scores, parserVars, serverVars>>

\* The request of the next query of a source comes back: an exception is
\* caught and logged, the items of a response are formatted and pushed; after
\* the last query the source returns its postings.
Query(i) ==
    /\ pc = "awaiting"
    /\ apis[i].status = "pending"
    /\ \E response \in ResponsePool :
          apis' = [apis EXCEPT
                      ![i].jobs = @ \o [k \in 1..Len(response.items) |->
                                           FormatJob(apis[i].name, response.items[k])],
                      ![i].threw = @ \/ response.threw,
                      ![i].left = @ - 1,
                      ![i].status = IF apis[i].left = 1 THEN "fulfilled" ELSE "pending",
                      ![i].settledAt = IF apis[i].left = 1 THEN NextPlace(apis) ELSE 0]
    /\ UNCHANGED <<resumeData, jobs, scores, locals, result, pc, parserVars, serverVars>>

\* The promise of a source rejects: its postings are lost.
Reject(i) ==
    /\ pc = "awaiting"
    /\ apis[i].status = "pending"
    /\ apis' = [apis EXCEPT ![i].status = "rejected", ![i].jobs = <<>>, ![i].left = 0,
                             ![i].settledAt = NextPlace(apis)]
    /\ UNCHANGED <<resumeData, jobs, scores, locals, result, pc, parserVars, serverVars>>

\* Promise.allSettled resolves: every source is settled.
AllSettled ==
    /\ pc = "awaiting"
    /\ \A i \in 1..Len(apis) : apis[i].status \in {"fulfilled", "rejected"}
    /\ \E random \in RandomPool : Finish(apis, random)
    /\ UNCHANGED <<resumeData, jobs, scores, parserVars, serverVars, searchVars>>

NextSearch ==
    \/ SearchJobs
    \/ \E i \in 1..Len(apis) : Query(i)
    \/ \E i \in 1..Len(apis) : Reject(i)
    \/ AllSettled

SpecSearch == InitSearch /\ [][NextSearch]_vars
---------------------------------------------------------------------------
(* The job search: what holds of the postings searchJobs returns *)

\* The postings of the result that a source gave.
FromSource(postings, name) == SelectSeq(postings, LAMBDA job : job.source = name)

\* The posting is one of the postings.
IsIn(job, postings) == \E k \in 1..Len(postings) : postings[k] = job

MergedIsEmpty == \A i \in 1..Len(apis) : apis[i].status = "fulfilled" => apis[i].jobs = <<>>

\* C19: searchJobs falls back to the mock postings exactly when the merged
\* result of the configured sources is empty (no source configured, every
\* source failed or returned nothing), so with a posting of a source no mock
\* posting is in the result; the returned list is never empty and holds no
\* two postings of the same title and company whatever the case, the first
\* of them being the one kept.
C19_MockIffMergedEmpty ==
    pc = "returned" =>
        /\ FromSource(result, "JobAgent") # <<>> <=> MergedIsEmpty
        /\ ~MergedIsEmpty => FromSource(result, "JobAgent") = <<>>
        /\ result # <<>>
        /\ \A m, n \in 1..Len(result) :
              (/\ toLowerCase(result[m].title) = toLowerCase(result[n].title)
               /\ toLowerCase(result[m].company) = toLowerCase(result[n].company)) => m = n
        /\ ~MergedIsEmpty =>
              \A n \in 1..Len(result) :
                  \E k \in 1..Len(locals.allJobs) :
                      /\ locals.allJobs[k] = result[n]
                      /\ \A j \in 1..(k - 1) :
                            DedupeKey(locals.allJobs[j]) # DedupeKey(result[n])

\* Two sources returned the same posting in different case: the result holds
\* the first, and no mock posting.
C19_Witness ==
    /\ pc = "returned"
    /\ Len(locals.allJobs) > Len(result)
    /\ \E i, j \in 1..Len(apis) :
          /\ i < j
          /\ apis[i].jobs # <<>> /\ apis[j].jobs # <<>>
          /\ DedupeKey(apis[i].jobs[1]) = DedupeKey(apis[j].jobs[1])
          /\ apis[i].jobs[1] # [apis[j].jobs[1] EXCEPT !.source = apis[i].name]
          /\ result[1] = apis[i].jobs[1]
    /\ FromSource(result, "JobAgent") = <<>>

\* Every source failed: the result is the mock postings, without the
\* duplicate the pick of the titles made.
C19_WitnessMock ==
    /\ pc = "returned"
    /\ Len(apis) > 0
    /\ MergedIsEmpty
    /\ Len(result) < 30
    /\ FromSource(result, "JobAgent") = result
---------------------------------------------------------------------------
(* The level of a posting: extractJobLevel over titles of several words *)

\* The words of a title.
MaxWords == 2

\* The words the titles are made of.
LevelWords ==
    << <<"I","n","t","e","r","n">>,
       <<"J","u","n","i","o","r">>,
       <<"J","r",".">>,
       <<"E","n","t","r","y">>,
       <<"P","r","i","n","c","i","p","a","l">>,
       <<"S","t","a","f","f">>,
       <<"S","e","n","i","o","r">>,
       <<"S","r",".">>,
       <<"L","e","a","d">>,
       <<"M","a","n","a","g","e","r">>,
       <<"P","r","o","d","u","c","t"," ","M","a","n","a","g","e","r">>,
       <<"D","i","r","e","c","t","o","r">>,
       <<"V","P">>,
       <<"V","i","c","e"," ","P","r","e","s","i","d","e","n","t">>,
       <<"E","n","g","i","n","e","e","r">> >>

\* The titles of at most MaxWords words, none of them twice.
LevelTitles ==
    {join([k \in 1..Len(picked) |-> LevelWords[picked[k]]], " ") :
        picked \in DistinctSeqsUpTo(1..Len(LevelWords), MaxWords)}

InitLevel ==
    /\ jobs \in {<<Job(title, c_Adobe, <<>>)>> : title \in LevelTitles}
    /\ resumeData = Profile(<<>>, <<>>)
    /\ InitCall

\* A call of extractJobLevel with the title of the posting.
ExtractJobLevel ==
    /\ pc = "start"
    /\ result' = extractJobLevel(jobs[1].title)
    /\ pc' = "returned"
    /\ UNCHANGED <<resumeData, jobs, scores, locals, parserVars, serverVars, searchVars>>

NextLevel == ExtractJobLevel

SpecLevel == InitLevel /\ [][NextLevel]_vars

\* The levels from the first to the last in precedence, each with the
\* keywords that stand for it.
LevelPrecedence ==
    << [level |-> "intern", keywords |-> << <<"i","n","t","e","r","n">> >>],
       [level |-> "junior", keywords |-> << <<"j","u","n","i","o","r">>, <<"j","r",".">>, <<"e","n","t","r","y">> >>],
       [level |-> "principal", keywords |-> << <<"p","r","i","n","c","i","p","a","l">> >>],
       [level |-> "staff", keywords |-> << <<"s","t","a","f","f">> >>],
       [level |-> "senior", keywords |-> << <<"s","e","n","i","o","r">>, <<"s","r",".">> >>],
       [level |-> "lead", keywords |-> << <<"l","e","a","d">> >>],
       [level |-> "manager", keywords |-> << <<"m","a","n","a","g","e","r">> >>],
       [level |-> "director", keywords |-> << <<"d","i","r","e","c","t","o","r">> >>],
       [level |-> "vp", keywords |-> << <<"v","p">>, <<"v","i","c","e"," ","p","r","e","s","i","d","e","n","t">> >>] >>

\* The ranks of the levels a title has a keyword of; a title with "product
\* manager" in it has no keyword of the level manager.
LevelsNamed(title) ==
    {k \in 1..Len(LevelPrecedence) :
        /\ SomeIncluded(toLowerCase(title), LevelPrecedence[k].keywords)
        /\ LevelPrecedence[k].level = "manager" =>
              ~includes(toLowerCase(title), <<"p","r","o","d","u","c","t"," ","m","a","n","a","g","e","r">>)}

\* C20: the level of a title with several level keywords is the first of
\* intern, junior (junior, jr., entry), principal, staff, senior, lead,
\* manager, director, vp that it has a keyword of, and mid without one; a
\* title with "product manager" in it is never of level manager: "Product
\* Manager" is mid and "Senior Product Manager" senior.
C20_LevelByPrecedence ==
    pc = "returned" =>
        /\ result = IF LevelsNamed(jobs[1].title) = {} THEN "mid"
                    ELSE LevelPrecedence[Least(LevelsNamed(jobs[1].title))].level
        /\ includes(toLowerCase(jobs[1].title), <<"p","r","o","d","u","c","t"," ","m","a","n","a","g","e","r">>) => result # "manager"
        /\ jobs[1].title = <<"P","r","o","d","u","c","t"," ","M","a","n","a","g","e","r">> => result = "mid"
        /\ jobs[1].title = <<"S","e","n","i","o","r"," ","P","r","o","d","u","c","t"," ","M","a","n","a","g","e",
          "r">>
              => result = "senior"

\* The level of "Senior Product Manager", a title with the keywords of two
\* levels, was extracted: senior.
C20_Witness ==
    /\ pc = "returned"
    /\ jobs[1].title = <<"S","e","n","i","o","r"," ","P","r","o","d","u","c","t"," ","M","a","n","a","g","e",
          "r">>
    /\ Cardinality({k \in 1..Len(LevelPrecedence) :
          SomeIncluded(toLowerCase(jobs[1].title), LevelPrecedence[k].keywords)}) = 2
    /\ result = "senior"
---------------------------------------------------------------------------
(* The relevant experience: getRelevantExperience over titles that match   *)
(* one rule, several rules and no rule                                     *)

RelevantJobTitles ==
    {t_DataEngineer, t_EngineeringManager, t_SeniorProductManager, t_ProductManager,
     t_UXDesigner, t_DataAnalyst, t_TechLead, t_DirectorOfDesign, t_JuniorDeveloper,
     t_AccountExecutive, t_VPOfSales}

InitRelevant ==
    /\ resumeData \in ExperienceProfiles
    /\ jobs \in {<<Job(t, c_Adobe, <<>>)>> : t \in RelevantJobTitles}
    /\ InitCall

SpecRelevant == InitRelevant /\ [][Next]_vars

\* The rules in the order of the claim, each with the category it selects.
RelevanceRules ==
    << [type |-> "Engineering", keywords |-> << <<"e","n","g","i","n","e","e","r">>, <<"d","e","v","e","l","o","p","e","r">> >>],
       [type |-> "Product", keywords |-> << <<"p","r","o","d","u","c","t"," ","m","a","n","a","g","e","r">>, <<"p","r","o","g","r","a","m"," ","m","a","n","a","g","e","r">> >>],
       [type |-> "Design", keywords |-> << <<"d","e","s","i","g","n","e","r">>, <<"u","x">>, <<"u","i">> >>],
       [type |-> "Data", keywords |-> << <<"d","a","t","a">>, <<"a","n","a","l","y","s","t">>, <<"m","l">> >>],
       [type |-> "Management", keywords |-> << <<"m","a","n","a","g","e","r">>, <<"d","i","r","e","c","t","o","r">>, <<"l","e","a","d">> >>] >>

\* The rules a title matches.
RulesMatching(title) ==
    {k \in 1..Len(RelevanceRules) :
        SomeIncluded(toLowerCase(title), RelevanceRules[k].keywords)}

\* C21: the relevant experience is the years of the category of the first rule
\* the title matches, in the order engineer/developer (Engineering), product
\* manager/program manager (Product), designer/ux/ui (Design), data/analyst/ml
\* (Data), manager/director/lead (Management); it is 0, not the total, when
\* the profile has no such category, and totalYearsExperience only when the
\* title matches no rule.
C21_FirstMatchingCategory ==
    pc = "returned" =>
        locals[1].relevantExperience =
            IF RulesMatching(jobs[1].title) = {} THEN resumeData.totalYearsExperience
            ELSE IF RelevanceRules[Least(RulesMatching(jobs[1].title))].type
                        \in DOMAIN resumeData.experienceByRole
            THEN resumeData.experienceByRole[
                     RelevanceRules[Least(RulesMatching(jobs[1].title))].type].years
            ELSE 0

\* "Data Engineer" matches the Engineering and the Data rule; the profile has
\* years in Data and none in Engineering: the relevant experience is 0.
C21_Witness ==
    /\ pc = "returned"
    /\ jobs[1].title = t_DataEngineer
    /\ RulesMatching(jobs[1].title) = {1, 4}
    /\ "Engineering" \notin DOMAIN resumeData.experienceByRole
    /\ YearsOf(resumeData.experienceByRole, "Data") > 0
    /\ resumeData.totalYearsExperience > 0
    /\ locals[1].relevantExperience = 0
---------------------------------------------------------------------------
(* JobMatcher: the required years of a posting                             *)

\* The first position from i on that holds no digit (Len(s) + 1 at the end
\* of s): where a greedy \d+ started at i stops.
DigitsEnd(s, i) == Least({j \in i..(Len(s) + 1) : j = Len(s) + 1 \/ ~IsDigit(s[j])})

RECURSIVE DigitsValue(_, _, _)
\* parseInt of the digits of s from i to j - 1.
DigitsValue(s, i, j) ==
    IF j <= i THEN 0 ELSE 10 * DigitsValue(s, i, j - 1) + DigitValue[s[j - 1]]

\* parseInt(match[1]) of a (\d+) that starts at i.
DigitsValueAt(s, i) == DigitsValue(s, i, DigitsEnd(s, i))

\* The starts of /(\d+)\+?\s*(?:years?|yrs?)\s*(?:of\s*)?experience/i: the
\* digits, \+? at d, the unit at q (it ends before u, 0 without a unit),
\* (?:of\s*)? at r.
Pattern1Starts(s) ==
    LET UnitEnd(q) ==
            IF WordAt(s, q, <<"y","e","a","r">>)
            THEN (IF WordAt(s, q + 4, <<"s">>) THEN q + 5 ELSE q + 4)
            ELSE IF WordAt(s, q, <<"y","r">>)
            THEN (IF WordAt(s, q + 2, <<"s">>) THEN q + 3 ELSE q + 2)
            ELSE 0
        OfEnd(r) == IF WordAt(s, r, <<"o","f">>) THEN SkipSpaces(s, r + 2) ELSE r
        ExperienceAfter(u) ==
            u > 0 /\ WordAt(s, OfEnd(SkipSpaces(s, u)), <<"e","x","p","e","r","i","e","n","c","e">>)
        Pattern1From(d) ==
            ExperienceAfter(UnitEnd(SkipSpaces(s, IF WordAt(s, d, <<"+">>) THEN d + 1 ELSE d)))
    IN  {i \in 1..Len(s) : IsDigit(s[i]) /\ Pattern1From(DigitsEnd(s, i))}

\* (\d+)\s*years? at r.
DigitsYearsAt(s, r) ==
    /\ r <= Len(s)
    /\ IsDigit(s[r])
    /\ WordAt(s, SkipSpaces(s, DigitsEnd(s, r)), <<"y","e","a","r">>)

\* The starts of /(\d+)\s*-\s*(\d+)\s*years?/i: the digits, the hyphen at q.
Pattern2Starts(s) ==
    LET Pattern2Dash(q) == WordAt(s, q, <<"-">>) /\ DigitsYearsAt(s, SkipSpaces(s, q + 1))
    IN  {i \in 1..Len(s) : IsDigit(s[i]) /\ Pattern2Dash(SkipSpaces(s, DigitsEnd(s, i)))}

\* The starts of /minimum\s*(\d+)\s*years?/i.
Pattern3Starts(s) ==
    {i \in 1..Len(s) : /\ WordAt(s, i, <<"m","i","n","i","m","u","m">>)
                       /\ DigitsYearsAt(s, SkipSpaces(s, i + 7))}

\* The starts of /at least\s*(\d+)\s*years?/i.
Pattern4Starts(s) ==
    {i \in 1..Len(s) : /\ WordAt(s, i, <<"a","t"," ","l","e","a","s","t">>)
                       /\ DigitsYearsAt(s, SkipSpaces(s, i + 8))}

\* this.experienceLevels[level]?.min || 2
LevelMinOrTwo(level) ==
    IF level \in DOMAIN experienceLevels /\ experienceLevels[level].min # 0
    THEN experienceLevels[level].min
    ELSE 2

\* extractRequiredExperience with the range pattern ahead of the first one.
extractRequiredExperience_RangeFirst(job) ==
    LET Required(description) ==
            IF Pattern2Starts(description) # {}
            THEN DigitsValueAt(description, Least(Pattern2Starts(description)))
            ELSE IF Pattern1Starts(description) # {}
            THEN DigitsValueAt(description, Least(Pattern1Starts(description)))
            ELSE IF Pattern3Starts(description) # {}
            THEN DigitsValueAt(description, SkipSpaces(description, Least(Pattern3Starts(description)) + 7))
            ELSE IF Pattern4Starts(description) # {}
            THEN DigitsValueAt(description, SkipSpaces(description, Least(Pattern4Starts(description)) + 8))
            ELSE LevelMinOrTwo(extractJobLevel(job.title))
    IN  Required(toLowerCase(job.description))

\* The first capture of the first pattern that matches the lower-cased
\* description, the minimum of the level (2 for a minimum of 0) without a match.
extractRequiredExperience(job) ==
    LET Required(description) ==
            IF Pattern1Starts(description) # {}
            THEN DigitsValueAt(description, Least(Pattern1Starts(description)))
            ELSE IF Pattern2Starts(description) # {}
            THEN DigitsValueAt(description, Least(Pattern2Starts(description)))
            ELSE IF Pattern3Starts(description) # {}
            THEN DigitsValueAt(description, SkipSpaces(description, Least(Pattern3Starts(description)) + 7))
            ELSE IF Pattern4Starts(description) # {}
            THEN DigitsValueAt(description, SkipSpaces(description, Least(Pattern4Starts(description)) + 8))
            ELSE LevelMinOrTwo(extractJobLevel(job.title))
    IN  Required(toLowerCase(job.description))

\* The descriptions the required years are extracted from: at most
\* MaxPhrases of the phrases, none of them twice.
MaxPhrases == 2

PhrasePool ==
    << <<"5","+"," ","y","e","a","r","s"," ","o","f"," ","e","x","p","e","r","i","e","n","c",
         "e">>,
       <<"3"," ","-"," ","5"," ","y","e","a","r","s"," ","o","f"," ","e","x","p","e","r","i",
         "e","n","c","e">>,
       <<"3","-","5"," ","y","e","a","r","s">>,
       <<"M","i","n","i","m","u","m"," ","4"," ","Y","e","a","r","s">>,
       <<"a","t"," ","l","e","a","s","t"," ","2"," ","y","e","a","r","s">>,
       <<"1","0"," ","y","r","s"," ","e","x","p","e","r","i","e","n","c","e">>,
       <<"7"," ","y","e","a","r","s">>,
       <<"a"," ","g","r","e","a","t"," ","t","e","a","m">> >>

RequirementPool ==
    {join([k \in 1..Len(picked) |-> PhrasePool[picked[k]]], " ") :
        picked \in DistinctSeqsUpTo(1..Len(PhrasePool), MaxPhrases)}

InitRequired ==
    /\ jobs \in {<<Job(t, c_Adobe, d)>> : t \in LevelJobTitles, d \in RequirementPool}
    /\ resumeData = Profile(<<>>, <<>>)
    /\ InitCall

\* A call of extractRequiredExperience with the posting.
ExtractRequiredExperience ==
    /\ pc = "start"
    /\ result' = extractRequiredExperience(jobs[1])
    /\ pc' = "returned"
    /\ UNCHANGED <<resumeData, jobs, scores, locals, parserVars, serverVars, searchVars>>

NextRequired == ExtractRequiredExperience

SpecRequired == InitRequired /\ [][NextRequired]_vars

\* The capture of each pattern of the cascade in the lower-cased description,
\* in the order of the cascade: <<n>> for a match, <<>> for none.
Captures(description) ==
    << IF Pattern1Starts(description) = {} THEN <<>>
       ELSE <<DigitsValueAt(description, Least(Pattern1Starts(description)))>>,
       IF Pattern2Starts(description) = {} THEN <<>>
       ELSE <<DigitsValueAt(description, Least(Pattern2Starts(description)))>>,
       IF Pattern3Starts(description) = {} THEN <<>>
       ELSE <<DigitsValueAt(description,
                  SkipSpaces(description, Least(Pattern3Starts(description)) + 7))>>,
       IF Pattern4Starts(description) = {} THEN <<>>
       ELSE <<DigitsValueAt(description,
                  SkipSpaces(description, Least(Pattern4Starts(description)) + 8))>> >>

\* The patterns that match.
Matching(captures) == {k \in 1..Len(captures) : captures[k] # <<>>}

\* The postings whose description no pattern matches.
NoPatternMatches == Matching(Captures(toLowerCase(jobs[1].description))) = {}

\* The minimum years of the band of the level of the posting.
LevelMinimum == experienceLevels[extractJobLevel(jobs[1].title)].min

\* The required years according to the cascade, with the given years when
\* no pattern matches.
RequiredIs(captures, fallback) ==
    result = IF Matching(captures) = {} THEN fallback
             ELSE captures[Least(Matching(captures))][1]

\* C22 as stated: the required years are the first capture of the first
\* pattern of the cascade (N+ years, N-M years, minimum N years, at least N
\* years) that matches, and the minimum years of the band of the level of the
\* posting when none matches, for every level: 0 for intern and junior.
C22_RequiredYears ==
    pc = "returned" =>
        /\ RequiredIs(Captures(toLowerCase(jobs[1].description)), LevelMinimum)
        /\ (NoPatternMatches /\ jobs[1].title = t_SoftwareEngineeringIntern) => result = 0
        /\ (NoPatternMatches /\ jobs[1].title = t_JuniorDeveloper) => result = 0

\* C22, what the code does: the required years are the first capture of the
\* first pattern that matches ("3-5 years" gives 3, "3 - 5 years of
\* experience" gives 5 by the first pattern, "Minimum 4 Years" gives 4); when
\* none matches they are the minimum of the band of the level where it is
\* positive (2 for mid, 5 for senior) and 2, not 0, for the levels intern and
\* junior, whose minimum is 0.
C22_RequiredYearsTwoForZero ==
    pc = "returned" =>
        /\ RequiredIs(Captures(toLowerCase(jobs[1].description)),
                      IF LevelMinimum = 0 THEN 2 ELSE LevelMinimum)
        /\ jobs[1].description = <<"3","-","5"," ","y","e","a","r","s">> => result = 3
        /\ jobs[1].description = <<"3"," ","-"," ","5"," ","y","e","a","r","s"," ","o","f"," ","e","x","p","e","r","i",
          "e","n","c","e">>
              => result = 5
        /\ jobs[1].description = <<"M","i","n","i","m","u","m"," ","4"," ","Y","e","a","r","s">> => result = 4
        /\ (NoPatternMatches /\ jobs[1].title = t_SeniorProductManager) => result = 5
        /\ (NoPatternMatches /\ jobs[1].title = t_SoftwareEngineer) => result = 2
        /\ (NoPatternMatches /\ jobs[1].title = t_SoftwareEngineeringIntern) => result = 2

\* The required years of an intern posting whose description, "7 years a
\* great team", no pattern matches: 2, and the band of the level starts at 0.
C22_Witness ==
    /\ pc = "returned"
    /\ jobs[1].title = t_SoftwareEngineeringIntern
    /\ jobs[1].description = <<"7"," ","y","e","a","r","s"," ","a"," ","g","r","e","a","t"," ","t","e","a","m">>
    /\ NoPatternMatches
    /\ LevelMinimum = 0
    /\ result = 2
---------------------------------------------------------------------------
(* The parser: first occurrence of a title wins *)

\* The role records in the order of their detection: the lexicon scan line
\* by line, then the matches of the first and of the second role pattern.
Detections(text, currentYear) ==
    Flatten([l \in 1..Len(split(text, "\n")) |->
                RolesOfLine(split(text, "\n")[l], currentYear)])
       \o [k \in 1..Len(PatternTitles(text, 1, 1)) |->
              Role(PatternTitles(text, 1, 1)[k], <<>>)]
       \o [k \in 1..Len(PatternTitles(text, 1, 2)) |->
              Role(PatternTitles(text, 1, 2)[k], <<>>)]

\* The first detection of the title of a role.
FirstDetection(detections, role) ==
    Least({d \in 1..Len(detections) :
              toLowerCase(detections[d].title) = toLowerCase(role.title)})

\* The roles are the first detections, in the order of detection.
FirstOccurrencesOf(detections, roles) ==
    /\ \A i, j \in 1..Len(roles) :
          i # j => toLowerCase(roles[i].title) # toLowerCase(roles[j].title)
    /\ \A d \in 1..Len(detections) : \E k \in 1..Len(roles) :
          toLowerCase(roles[k].title) = toLowerCase(detections[d].title)
    /\ \A k \in 1..Len(roles) :
          /\ \E d \in 1..Len(detections) :
                toLowerCase(detections[d].title) = toLowerCase(roles[k].title)
          /\ roles[k] = detections[FirstDetection(detections, roles[k])]
    /\ \A i, j \in 1..Len(roles) :
          i < j => FirstDetection(detections, roles[i]) < FirstDetection(detections, roles[j])

\* C23: no two roles of an extracted profile have the same title, whatever
\* the case of the letters; of a title detected more than once (on several
\* lines, or by the lexicon scan and by a role pattern) the record detected
\* first is kept, with its years and at its place in the order of detection.
C23_FirstOccurrenceKept ==
    pc = "returned" =>
        FirstOccurrencesOf(Detections(file.text, locals.currentYear), result.roles)

\* A title was detected twice with different years, and a title detected by
\* the lexicon scan was detected again, in other letters, by a role pattern;
\* the profile has the records detected first.
C23_Witness ==
    /\ pc = "returned"
    /\ LET Twice(detections) ==
               /\ \E d, e \in 1..Len(detections) :
                     /\ d < e
                     /\ toLowerCase(detections[d].title) = toLowerCase(detections[e].title)
                     /\ detections[d].years = <<0 - 5>>
                     /\ detections[e].years = <<locals.currentYear - 2015>>
                     /\ \E k \in 1..Len(result.roles) : result.roles[k] = detections[d]
               /\ \E d, e \in 1..Len(detections) :
                     /\ d < e
                     /\ detections[d].title # detections[e].title
                     /\ toLowerCase(detections[d].title) = toLowerCase(detections[e].title)
                     /\ \E k \in 1..Len(result.roles) : result.roles[k] = detections[d]
       IN  Twice(Detections(file.text, locals.currentYear))
---------------------------------------------------------------------------
(* The parser: the rollup of the roles *)

\* The places, in the roles, of the roles whose title contains a keyword of
\* category k.
PlacesOfType(roles, k) ==
    {i \in 1..Len(roles) :
        \E w \in 1..Len(roleTypes[k].keywords) :
            includes(toLowerCase(roles[i].title), roleTypes[k].keywords[w])}

RECURSIVE ExplicitYears(_, _)
\* The sum of the explicit years of the roles at the places.
ExplicitYears(roles, places) ==
    IF places = {} THEN 0
    ELSE (IF roles[Greatest(places)].years = <<>> THEN 0
          ELSE roles[Greatest(places)].years[1])
            + ExplicitYears(roles, places \ {Greatest(places)})

\* The years of category k: the sum, or two years a role for a sum of 0.
CategoryYears(roles, k) ==
    IF ExplicitYears(roles, PlacesOfType(roles, k)) = 0
    THEN 2 * Cardinality(PlacesOfType(roles, k))
    ELSE ExplicitYears(roles, PlacesOfType(roles, k))

RECURSIVE AllCategoryYears(_, _)
\* The sum of the years of the categories 1..k that have a role.
AllCategoryYears(roles, k) ==
    IF k = 0 THEN 0
    ELSE (IF PlacesOfType(roles, k) = {} THEN 0 ELSE CategoryYears(roles, k))
            + AllCategoryYears(roles, k - 1)

\* C24: a role counts, with its title and its explicit years, in every one
\* of the five categories whose keywords its title contains (in several, or
\* in none); the years of a category are the sum of the explicit years of
\* its roles, and 2 * (number of its roles) when it has a role and the sum is
\* 0; totalYearsExperience is the sum of the years of the categories, capped
\* at 30.
C24_Rollup ==
    pc = "returned" =>
        /\ \A k \in 1..Len(roleTypes) :
              /\ roleTypes[k].type \in DOMAIN result.experienceByRole
                    <=> PlacesOfType(result.roles, k) # {}
              /\ PlacesOfType(result.roles, k) # {} =>
                    /\ Len(result.experienceByRole[roleTypes[k].type].roles)
                          = Cardinality(PlacesOfType(result.roles, k))
                    /\ \A i \in PlacesOfType(result.roles, k) :
                          \E n \in 1..Len(result.experienceByRole[roleTypes[k].type].roles) :
                              result.experienceByRole[roleTypes[k].type].roles[n]
                                  = result.roles[i].title
                    /\ result.experienceByRole[roleTypes[k].type].years
                          = CategoryYears(result.roles, k)
        /\ DOMAIN result.experienceByRole \subseteq {roleTypes[k].type : k \in 1..Len(roleTypes)}
        /\ result.totalYearsExperience
              = Min(AllCategoryYears(result.roles, Len(roleTypes)), 30)

\* A profile with a role in two categories (Product Manager: Product and
\* Management), a role in none (Intern), a category estimated at two years
\* (Design, of Ux Designer without years), and a total below the cap.
C24_Witness ==
    /\ pc = "returned"
    /\ \E i \in 1..Len(result.roles) :
          /\ i \in PlacesOfType(result.roles, 2)
          /\ i \in PlacesOfType(result.roles, 5)
          /\ result.roles[i].years # <<>>
    /\ \E i \in 1..Len(result.roles) :
          \A k \in 1..Len(roleTypes) : i \notin PlacesOfType(result.roles, k)
    /\ "Design" \in DOMAIN result.experienceByRole
    /\ ExplicitYears(result.roles, PlacesOfType(result.roles, 3)) = 0
    /\ result.experienceByRole["Design"].years = 2
    /\ result.totalYearsExperience
          = result.experienceByRole["Design"].years
              + result.experienceByRole["Product"].years
              + result.experienceByRole["Management"].years
---------------------------------------------------------------------------
(* The parser: the seniority level of texts with and without indicators *)

\* Lines without an indicator of any tier, of 3, 6 and 14 years, and the
\* lines of the pool with an indicator of the tiers entry, mid, senior and
\* manager.
SeniorityLines ==
    << <<"S","o","f","t","w","a","r","e"," ","E","n","g","i","n","e","e","r"," ","2","0","2",
         "2"," ","-"," ","2","0","2","5">>,
       <<"D","a","t","a"," ","A","n","a","l","y","s","t"," ","2","0","1","8"," ","-"," ","2",
         "0","2","4">>,
       <<"D","e","v","O","p","s"," ","E","n","g","i","n","e","e","r"," ","2","0","1","0"," ",
         "-"," ","2","0","2","4">>,
       LinePool[4], LinePool[6], LinePool[1], LinePool[5] >>

SeniorityTexts ==
    {join([k \in 1..Len(picked) |-> SeniorityLines[picked[k]]], "\n") :
        picked \in DistinctSeqsUpTo(1..Len(SeniorityLines), MaxLines)}

InitSeniority ==
    /\ file \in {[ext |-> <<".","t","x","t">>, readable |-> TRUE, text |-> text] :
                    text \in SeniorityTexts}
    /\ resumeData = Profile(<<>>, <<>>)
    /\ jobs = <<>>
    /\ scores = [total |-> 0]
    /\ locals = <<>>
    /\ result = <<>>
    /\ pc = "start"
    /\ InitNoRequest /\ InitNoSearch

SpecSeniority == InitSeniority /\ [][NextParse]_vars

\* The tiers in the order of the claim.
TierOrder == <<"entry", "mid", "senior", "manager">>

\* The tiers with an indicator phrase in the lower-cased text.
TiersIndicated(text) ==
    {t \in 1..Len(TierOrder) :
        \E n \in 1..Len(seniorityIndicators) :
            /\ seniorityIndicators[n].level = TierOrder[t]
            /\ \E p \in 1..Len(seniorityIndicators[n].indicators) :
                  includes(toLowerCase(text), seniorityIndicators[n].indicators[p])}

\* C25: the seniority level is the first of the tiers entry, mid, senior,
\* manager with an indicator phrase in the lower-cased text, even when a later
\* tier has one too; only without an indicator of any tier it follows from
\* the total years: entry up to 2, mid up to 5, senior up to 10, manager
\* above.
C25_FirstTierThenYears ==
    pc = "returned" =>
        result.seniorityLevel =
            IF TiersIndicated(file.text) # {} THEN TierOrder[Least(TiersIndicated(file.text))]
            ELSE IF result.totalYearsExperience <= 2 THEN "entry"
            ELSE IF result.totalYearsExperience <= 5 THEN "mid"
            ELSE IF result.totalYearsExperience <= 10 THEN "senior"
            ELSE "manager"

\* A text with an indicator of the tiers entry and manager and a total above
\* 10 years: the level is entry.
C25_Witness ==
    /\ pc = "returned"
    /\ TiersIndicated(file.text) = {1, 4}
    /\ result.totalYearsExperience > 10
    /\ result.seniorityLevel = "entry"

\* A text without an indicator and a total of 9 years: the level is senior.
C25_WitnessByYears ==
    /\ pc = "returned"
    /\ TiersIndicated(file.text) = {}
    /\ result.totalYearsExperience = 9
    /\ result.seniorityLevel = "senior"
---------------------------------------------------------------------------
(* The parser: the primary role *)

\* Lines of the categories Design (two years by estimate), Engineering (two
\* years), none, Data (six years), Product with Management (the same years),
\* and Engineering with negative years.
PrimaryLines ==
    << <<"U","X"," ","D","e","s","i","g","n","e","r",","," ","3","+"," ","y","e","a","r","s">>,
       <<"Q","A"," ","E","n","g","i","n","e","e","r"," ","2","0","2","3"," ","-"," ","2","0",
         "2","5">>,
       <<"M","a","r","k","e","t","i","n","g"," ","I","n","t","e","r","n"," ","2","0","1","9">>,
       <<"D","a","t","a"," ","A","n","a","l","y","s","t"," ","2","0","1","8"," ","-"," ","2",
         "0","2","4">>,
       LinePool[5], LinePool[2] >>

PrimaryTexts ==
    {join([k \in 1..Len(picked) |-> PrimaryLines[picked[k]]], "\n") :
        picked \in DistinctSeqsUpTo(1..Len(PrimaryLines), MaxLines)}

InitPrimary ==
    /\ file \in {[ext |-> <<".","t","x","t">>, readable |-> TRUE, text |-> text] :
                    text \in PrimaryTexts}
    /\ resumeData = Profile(<<>>, <<>>)
    /\ jobs = <<>>
    /\ scores = [total |-> 0]
    /\ locals = <<>>
    /\ result = <<>>
    /\ pc = "start"
    /\ InitNoRequest /\ InitNoSearch

SpecPrimary == InitPrimary /\ [][NextParse]_vars

\* The categories of the most years, when these are positive.
MostYears(profile) ==
    {k \in 1..Len(roleTypes) :
        /\ roleTypes[k].type \in DOMAIN profile.experienceByRole
        /\ profile.experienceByRole[roleTypes[k].type].years > 0
        /\ \A j \in DOMAIN profile.experienceByRole :
              profile.experienceByRole[j].years
                  <= profile.experienceByRole[roleTypes[k].type].years}

\* Category j has a role before category k has one, or with the same first
\* role stands before k in the table of the categories: j is before k in
\* experienceByRole.
KeyBefore(roles, j, k) ==
    \/ Least(PlacesOfType(roles, j)) < Least(PlacesOfType(roles, k))
    \/ Least(PlacesOfType(roles, j)) = Least(PlacesOfType(roles, k)) /\ j < k

C26_WitnessGeneral ==
    /\ pc = "returned"
    /\ Len(result.roles) > 0
    /\ DOMAIN result.experienceByRole # {}
    /\ result.primaryRole.type = "General"
---------------------------------------------------------------------------
(* The job search: the order of the answers *)

\* The postings the source of the name returned, none when it is not
\* configured or its promise rejected.
ReturnedBy(name) ==
    IF \E i \in 1..Len(apis) : apis[i].name = name /\ apis[i].status = "fulfilled"
    THEN apis[CHOOSE i \in 1..Len(apis) : apis[i].name = name].jobs
    ELSE <<>>

\* The postings of the sources in the order LinkedIn, JSearch, Adzuna.
InSourceOrder == ReturnedBy("LinkedIn") \o ReturnedBy("JSearch") \o ReturnedBy("Adzuna")

\* The postings are those of the merged list that no earlier one of the
\* list has the key of, in the order of the list.
FirstOfEachKey(postings, merged) ==
    \E place \in [1..Len(postings) -> 1..Len(merged)] :
        /\ \A n \in 1..Len(postings) :
              /\ postings[n] = merged[place[n]]
              /\ \A j \in 1..(place[n] - 1) : DedupeKey(merged[j]) # DedupeKey(postings[n])
        /\ \A m, n \in 1..Len(postings) : m < n => place[m] < place[n]
        /\ \A k \in 1..Len(merged) :
              \E n \in 1..Len(postings) : DedupeKey(postings[n]) = DedupeKey(merged[k])

\* C27: in whatever order the sources complete, the merged list holds their
\* postings in the order LinkedIn, JSearch, Adzuna, and the list searchJobs
\* returns holds the first posting of each key of that list in that order:
\* it is the same for every order of completion.
C27_SourceOrderWhateverCompletion ==
    (pc = "returned" /\ ~MergedIsEmpty) =>
        /\ locals.allJobs = InSourceOrder
        /\ FirstOfEachKey(result, InSourceOrder)

\* Adzuna completed first and LinkedIn last, both with a posting of the same
\* key in different letters; the result holds the posting of LinkedIn.
C27_Witness ==
    /\ pc = "returned"
    /\ Len(apis) = 3
    /\ apis[1].name = "LinkedIn" /\ apis[1].status = "fulfilled" /\ apis[1].settledAt = 3
    /\ apis[3].name = "Adzuna" /\ apis[3].status = "fulfilled" /\ apis[3].settledAt = 1
    /\ apis[1].jobs # <<>> /\ apis[3].jobs # <<>>
    /\ DedupeKey(apis[1].jobs[1]) = DedupeKey(apis[3].jobs[1])
    /\ apis[1].jobs[1].title # apis[3].jobs[1].title
    /\ result[1] = apis[1].jobs[1]
    /\ \A n \in 1..Len(result) : result[n] # apis[3].jobs[1]
---------------------------------------------------------------------------
(* JobMatcher: calls of matchJobs one after the other *)

\* Two engineers of nine years, one of them at two seniority levels, and a
\* designer of two years.
CallProfiles ==
    {Profile(<<Role(t_SoftwareEngineer, <<9>>)>>,
             << <<"P","y","t","h","o","n">>, <<"R","e","a","c","t">> >>),
     [Profile(<<Role(t_SoftwareEngineer, <<9>>)>>,
              << <<"P","y","t","h","o","n">>, <<"R","e","a","c","t">> >>)
         EXCEPT !.seniorityLevel = "senior"],
     Profile(<<Role(t_FrontendEngineer, <<9>>)>>, <<>>),
     Profile(<<Role(t_UXDesigner, <<2>>)>>, << <<"F","i","g","m","a">> >>)}

\* A posting, a posting of the same title with another company and another
\* description, and two postings that the scores of an engineer put the
\* other way round.
CallBatches ==
    {<<Job(t_SoftwareEngineer, c_Adobe,
           <<"5","+"," ","y","e","a","r","s"," ","o","f"," ","e","x","p","e","r","i","e","n",
             "c","e"," ","w","i","t","h"," ","P","y","t","h","o","n">>)>>,
     <<Job(t_SoftwareEngineer, c_Figma, <<>>)>>,
     <<Job(t_AccountExecutive, c_Adobe, <<>>),
       Job(t_SoftwareEngineer, c_Adobe,
           <<"5","+"," ","y","e","a","r","s"," ","o","f"," ","e","x","p","e","r","i","e","n",
             "c","e"," ","w","i","t","h"," ","P","y","t","h","o","n">>)>>}

InitCalls ==
    /\ resumeData \in CallProfiles
    /\ jobs \in CallBatches
    /\ scores = [total |-> 0]
    /\ locals = <<>>
    /\ result = 0
    /\ pc = "start"
    /\ InitNoFile /\ InitNoRequest /\ InitNoSearch

\* A call of matchJobs; locals keeps, for every call, the arguments before
\* and after it and what it returned.
MatchJobsCall ==
    /\ pc = "start"
    /\ result' = matchJobs(resumeData, jobs)
    /\ resumeData' = ArgumentsAfter(resumeData, jobs).profile
    /\ jobs' = ArgumentsAfter(resumeData, jobs).postings
    /\ locals' = Append(locals, [profile  |-> resumeData,
                                 postings |-> jobs,
                                 after    |-> ArgumentsAfter(resumeData, jobs),
                                 returned |-> matchJobs(resumeData, jobs)])
    /\ pc' = "returned"
    /\ UNCHANGED <<scores, parserVars, serverVars, searchVars>>

\* The caller has the next profile and the next postings.
NextRequest ==
    /\ pc = "returned"
    /\ Len(locals) < MaxCalls
    /\ resumeData' \in CallProfiles
    /\ jobs' \in CallBatches
    /\ pc' = "start"
    /\ UNCHANGED <<scores, locals, result, parserVars, serverVars, searchVars>>

NextCalls == MatchJobsCall \/ NextRequest

SpecCalls == InitCalls /\ [][NextCalls]_vars

\* The years of the categories of a profile.
YearsByCategory(profile) ==
    [type \in DOMAIN profile.experienceByRole |-> profile.experienceByRole[type].years]

\* C28: the experience score of a posting follows from the title of the
\* posting, the years of the categories of the profile and its
\* totalYearsExperience: two postings of the same title, whatever their
\* descriptions and companies, scored for profiles of the same category years
\* and the same total, whatever their seniorityLevel, roles and skills, have
\* the same experience score.
C28_ExperienceScoreByTitleAndYears ==
    \A a, b \in 1..Len(locals) :
        \A m \in 1..Len(locals[a].returned.all), n \in 1..Len(locals[b].returned.all) :
            (/\ locals[a].returned.all[m].title = locals[b].returned.all[n].title
             /\ YearsByCategory(locals[a].profile) = YearsByCategory(locals[b].profile)
             /\ locals[a].profile.totalYearsExperience = locals[b].profile.totalYearsExperience)
                => locals[a].returned.all[m].scores.experience
                      = locals[b].returned.all[n].scores.experience

\* Two calls with profiles that differ in the seniorityLevel only and with
\* postings of one title and different descriptions, of different required
\* years: the content scores differ, the experience scores are the same.
C28_Witness ==
    /\ Len(locals) = 2
    /\ locals[1].profile # locals[2].profile
    /\ [locals[1].profile EXCEPT !.seniorityLevel = "senior"] = locals[2].profile
    /\ Len(locals[1].postings) = 1 /\ Len(locals[2].postings) = 1
    /\ locals[1].postings[1].title = locals[2].postings[1].title
    /\ locals[1].postings[1].description # locals[2].postings[1].description
    /\ extractRequiredExperience(locals[1].postings[1])
          # extractRequiredExperience(locals[2].postings[1])
    /\ locals[1].returned.all[1].scores.content # locals[2].returned.all[1].scores.content
    /\ locals[1].returned.all[1].scores.experience = locals[2].returned.all[1].scores.experience
---------------------------------------------------------------------------
(* JobMatcher: career pivoters and senior postings *)

\* Careers of two roles, the first with no, one, two and three years, the
\* second with six, with and without the skills of the descriptions.
PivotProfiles ==
    {Profile(<<Role(c[1], y), Role(c[2], <<6>>)>>, technical) :
        c \in CareerStarts \cup {<<t_ProductManager, t_SoftwareEngineer>>},
        y \in {<<>>, <<1>>, <<2>>, <<3>>},
        technical \in {<<>>, << <<"P","y","t","h","o","n">>, <<"R","e","a","c","t">> >>}}

\* Postings of the levels senior, lead, manager and mid.
PivotJobs ==
    {Job(t, c_Adobe, d) :
        t \in {t_SeniorProductManager, t_TechLead, t_EngineeringManager, t_ProductManager},
        d \in {<<>>,
               <<"p","y","t","h","o","n"," ","a","n","d"," ","r","e","a","c","t">>,
               <<"w","e"," ","u","s","e"," ","r","u","s","t">>}}

InitPivot ==
    /\ resumeData \in PivotProfiles
    /\ jobs \in {<<j>> : j \in PivotJobs}
    /\ InitCall

SpecPivot == InitPivot /\ [][Next]_vars

\* C29: a posting of level senior, lead or manager scored for a profile of
\* more than 5 total years and less than 3 relevant years has a confidence
\* below 90 and is not recommended, whatever its role score and its content
\* score.
C29_PivoterNotRecommendedSenior ==
    pc = "returned" =>
        \A n \in 1..Len(jobs) :
            (/\ resumeData.totalYearsExperience > 5
             /\ locals[n].relevantExperience < 3
             /\ locals[n].jobLevel \in {"senior", "lead", "manager"})
                => /\ \A m \in 1..Len(result.all) :
                         PostingOf(result.all[m]) = jobs[n] => result.all[m].confidence < 90
                   /\ \A m \in 1..Len(result.recommended) :
                         PostingOf(result.recommended[m]) # jobs[n]

\* A pivoter scored for a senior posting with the role score 100 and the
\* content score 100: the confidence is below 90 and the posting is worth
\* exploring.
C29_Witness ==
    /\ pc = "returned"
    /\ resumeData.totalYearsExperience > 5
    /\ locals[1].relevantExperience < 3
    /\ locals[1].jobLevel = "senior"
    /\ result.all[1].scores.role = 100
    /\ result.all[1].scores.content = 100
    /\ result.all[1].scores.experience <= 40
    /\ result.all[1].confidence < 90
    /\ result.recommended = <<>>
    /\ Len(result.worthExploring) = 1
---------------------------------------------------------------------------
(* JobMatcher: matchJobs keeps nothing and writes to none of its arguments *)

=============================================================================
